---- MODULE Spec2Model ----
(***************************************************************************)
(* The earnings-reaction engine of backend/app/services: BacktestService   *)
(* (run_backtest, get_single_stock_backtest, search_stock_earnings) with   *)
(* the FMPService and FinnhubService calls it makes.                       *)
(*                                                                         *)
(* Dates are day numbers (date.toordinal up to a shift), so a timedelta is *)
(* an integer difference.  A ticker is the tuple of its characters.  A     *)
(* closing price is a positive integer; price_change_pct is kept exactly   *)
(* as the rational (after - before) / before and rounded to 4 decimals as  *)
(* an integer count of 1/10000.  Python's None is "None" for a string,     *)
(* NoPrice for a StockPrice.                                               *)
(***************************************************************************)
EXTENDS Integers, Sequences, FiniteSets, TLC

VARIABLES
    today,                \* date.today()
    pc,                   \* where the running handler stands
    op,                   \* the handler that runs: "run", "search", "single"
    request,              \* the handler's arguments
    earnings_events,      \* run_backtest: what get_earnings_calendar returned
    filtered_events,      \* the events the loop goes through
    all_profiles,         \* symbol -> CompanyProfile
    finnhub_times,        \* "SYMBOL_DATE" -> "BMO" | "AMC", from the bulk query
    i,                    \* the loop's position in filtered_events (from 1)
    market,               \* the bars the price source holds for the symbol asked
    prices,               \* the loop's prices
    earnings_time_value,  \* the loop's earnings_time_value
    via,                  \* the step of _get_earnings_time that returned it
    resolved,             \* (earnings_time, price_before, price_after)
    results,              \* the handler's results list
    returned,             \* what the handler returned (a list; a record is a list of one)
    outcome,              \* "pending", "list", "record", "none", "raised"
    large_cap_cache,      \* FMPService._large_cap_cache (class level)
    earnings_time_cache,  \* FinnhubService._earnings_time_cache (per service)
    finnhub_call,         \* the FinnhubService.get_earnings_calendar request of the latest step
    lookups,              \* batch_get_profiles: symbol -> where its fetch_with_limit task stands
    callers,              \* get_large_cap_symbols_set: caller -> where its call stands
    upstream,             \* what the upstream services answer while a request is repeated
    first_call,           \* what the first of two equal run_backtest calls returned
    response,             \* what the router's stock-search handler sent back
    history,              \* the objects MinioService has stored
    transcript_call       \* get_earnings_time_from_transcript: where its call stands

vars == << today, pc, op, request, earnings_events, filtered_events, all_profiles,
           finnhub_times, i, market, prices, earnings_time_value, via, resolved,
           results, returned, outcome, large_cap_cache, earnings_time_cache,
           finnhub_call, lookups, callers, upstream, first_call, response, history,
           transcript_call >>

----------------------------------------------------------------------------
(* Program constants *)

\* timedelta(days=30): the range the timing provider holds
FinnhubDays == 30
\* range(1, 6): how far _determine_prices looks for a neighbouring bar
LookDays == 5
\* timedelta(days=7): get_prices_around_earnings asks for date +- 7
AroundDays == 7
\* timedelta(days=5): get_historical_price and get_price_before_earnings
HistoricalDays == 5
\* price_change_threshold = 0.10, in units of 1/10000
PriceChangeThreshold == 1000

\* asyncio.Semaphore(10): the profile lookups batch_get_profiles lets run at once
PoolSize == 10

\* round(price_change_pct, 4): the unit of a rounded change is 1/10000
PctScale == 10000

----------------------------------------------------------------------------
(* Bounds of the model *)

\* the longest calendar or history response
MaxEvents == 2
\* the price source holds bars on any of the days within Span of the date asked about
Span == 6
\* the day number of the first announcement date (day 40 stands for 2024-05-02)
Day0 == 40
\* where every close is enumerated, a close is one of 9..(8 + MaxClose), 32, 33
MaxClose == 4
\* batch_get_profiles is asked about up to PoolSize + MaxExtra symbols
MaxExtra == 1
\* the requests whose get_large_cap_symbols_set calls can overlap
MaxCallers == 2

\* rows of a calendar response of listed and depositary tickers
MaxRows == 2

----------------------------------------------------------------------------
(* Values *)

NoPrice == [date |-> -1, close |-> 0]
NoneTriple == [earnings_time |-> "None", price_before |-> NoPrice, price_after |-> NoPrice]
NoCall == [kind |-> "none", from_date |-> 0, to_date |-> 0, symbol |-> << >>,
           earnings_date |-> 0, found |-> FALSE, hour |-> ""]
NoRequest == [symbol |-> << >>, start_date |-> 0, end_date |-> 0, min_market_cap |-> 0,
              earnings_date |-> 0]

AAPL == << "A", "A", "P", "L" >>
MSFT == << "M", "S", "F", "T" >>
BRKB == << "B", "R", "K", ".", "B" >>
TCEHY == << "T", "C", "E", "H", "Y" >>

Abs(x) == IF x < 0 THEN -x ELSE x
Max2(a, b) == IF a >= b THEN a ELSE b
\* an end that is not cut at the second bound
Uncut(a, b) == a
Min2(a, b) == IF a <= b THEN a ELSE b

\* cache_key = f"{symbol}_{date.isoformat()}": the date part has a fixed width, so
\* the string determines the pair and the pair is the key
CacheKey(symbol, d) == << symbol, d >>

----------------------------------------------------------------------------
(* FMPService.get_earnings_calendar: the ticker filter *)

Letters ==
    { "A", "B", "C", "D", "E", "F", "G", "H", "I", "J", "K", "L", "M",
      "N", "O", "P", "Q", "R", "S", "T", "U", "V", "W", "X", "Y", "Z" }

AdrSuffixes ==
    { << "A", "D", "R" >>, << "A", "D", "S" >>, << "C", "Y" >>, << "G", "F" >>,
      << "H", "Y" >>, << "T", "Y" >>, << "P", "Y" >>, << "L", "Y" >>,
      << "E", "Y" >>, << "A", "Y" >>, << "U", "Y" >> }

Contains(symbol, ch) == \E k \in 1..Len(symbol) : symbol[k] = ch

EndsWith(symbol, suffix) ==
    /\ Len(symbol) >= Len(suffix)
    /\ \A k \in 1..Len(suffix) : symbol[Len(symbol) - Len(suffix) + k] = suffix[k]

\* the third test without its length condition
ExcludedTickerAnyLength(symbol) ==
    \/ Contains(symbol, ".")
    \/ \E suffix \in AdrSuffixes : EndsWith(symbol, suffix)
    \/ /\ symbol[Len(symbol)] \in { "Y", "F" }
       /\ \A k \in 1..(Len(symbol) - 1) : symbol[k] \in Letters

\* the three `continue`s on the symbol
ExcludedTicker(symbol) ==
    \/ Contains(symbol, ".")
    \/ \E suffix \in AdrSuffixes : EndsWith(symbol, suffix)
    \/ /\ Len(symbol) > 3
       /\ symbol[Len(symbol)] \in { "Y", "F" }
       /\ \A k \in 1..(Len(symbol) - 1) : symbol[k] \in Letters

\* the rows that become EarningsEvents, in the response's order
CalendarEvents(rows) == SelectSeq(rows, LAMBDA row : ~ExcludedTicker(row.symbol))

----------------------------------------------------------------------------
(* FinnhubService._map_hour_to_time *)

\* a row whose "hour" is null: earning.get("hour", "") gives None
NoHour == "<null>"

\* str.lower on the codes the model supplies
Lower(hour) ==
    CASE hour \in { "BMO", "Bmo", "bMO" } -> "bmo"
      [] hour \in { "AMC", "Amc", "aMC" } -> "amc"
      [] hour = "DMH" -> "dmh"
      [] hour = "PM" -> "pm"
      [] OTHER -> hour

\* the comparison without hour.lower()
MapHourExactly(hour) ==
    IF hour = "bmo" THEN "BMO"
    ELSE IF hour = "amc" THEN "AMC"
    ELSE "None"

MapHourToTime(hour) ==
    LET hour_lower == IF hour \in { "", NoHour } THEN "" ELSE Lower(hour)
    IN  IF hour_lower = "bmo" THEN "BMO"
        ELSE IF hour_lower = "amc" THEN "AMC"
        ELSE "None"

----------------------------------------------------------------------------
(* The price source: dailyBars(symbol, from, to) *)

\* a series gives the close at each offset from the date asked about, 0 where the
\* day has no bar
SeriesBars(series, d) ==
    { [date |-> d + o, close |-> series[o]] : o \in { o \in DOMAIN series : series[o] > 0 } }

\* an end-of-day bar exists only for a day that has ended: none is dated after now
Market(series, d, now) == { b \in SeriesBars(series, d) : b.date <= now }

RangeBars(bars, from_date, to_date) ==
    { b \in bars : from_date <= b.date /\ b.date <= to_date }

RECURSIVE AscBars(_)
AscBars(bars) ==
    IF bars = {} THEN << >>
    ELSE LET first == CHOOSE b \in bars : \A c \in bars : b.date <= c.date
         IN  << first >> \o AscBars(bars \ { first })

Reverse(seq) == [k \in 1..Len(seq) |-> seq[Len(seq) + 1 - k]]

\* the response's order is the provider's: oldest first or newest first
Ordered(bars, order) == IF order = "asc" THEN AscBars(bars) ELSE Reverse(AscBars(bars))

----------------------------------------------------------------------------
(* BacktestService._determine_prices and _determine_prices_fallback *)

HasBar(price_list, d) == \E k \in 1..Len(price_list) : price_list[k].date = d

\* price_map[p_date] = p over the list sorted by date (a stable sort): of several
\* bars of one date the last one supplied is kept
BarAt(price_list, d) ==
    price_list[CHOOSE k \in 1..Len(price_list) :
                  /\ price_list[k].date = d
                  /\ \A j \in (k + 1)..Len(price_list) : price_list[j].date # d]

\* range(0, 6) in place of range(1, 6): the search starts on the day itself
NearestBarFromDay(price_list, d, dir) ==
    LET hits == { k \in 0..LookDays : HasBar(price_list, d + dir * k) }
    IN  IF hits = {} THEN NoPrice
        ELSE BarAt(price_list, d + dir * (CHOOSE k \in hits : \A j \in hits : k <= j))

\* the loop without its `break`: the last date d + dir * i that has a bar
FarthestBar(price_list, d, dir) ==
    LET hits == { k \in 1..LookDays : HasBar(price_list, d + dir * k) }
    IN  IF hits = {} THEN NoPrice
        ELSE BarAt(price_list, d + dir * (CHOOSE k \in hits : \A j \in hits : k >= j))

\* range(1, 8) in place of range(1, 6): the search covers the whole response
NearestBarWithinWeek(price_list, d, dir) ==
    LET hits == { k \in 1..AroundDays : HasBar(price_list, d + dir * k) }
    IN  IF hits = {} THEN NoPrice
        ELSE BarAt(price_list, d + dir * (CHOOSE k \in hits : \A j \in hits : k <= j))

\* for i in range(1, 6): the first date d + dir * i that has a bar
NearestBar(price_list, d, dir) ==
    LET hits == { k \in 1..LookDays : HasBar(price_list, d + dir * k) }
    IN  IF hits = {} THEN NoPrice
        ELSE BarAt(price_list, d + dir * (CHOOSE k \in hits : \A j \in hits : k <= j))

\* a resolver that pairs the day (or the day before) with the day after whatever
\* the timing
DeterminePricesGuessing(earnings_date, price_list, transcript_time) ==
    LET earnings_day_price ==
            IF HasBar(price_list, earnings_date) THEN BarAt(price_list, earnings_date)
            ELSE NearestBar(price_list, earnings_date, -1)
        day_after_price == NearestBar(price_list, earnings_date, 1)
    IN  IF earnings_day_price # NoPrice /\ day_after_price # NoPrice
        THEN [earnings_time |-> transcript_time,
              price_before |-> earnings_day_price,
              price_after |-> day_after_price]
        ELSE NoneTriple

\* a resolver that gives up whenever the event date has no bar
DeterminePricesTradingDayOnly(earnings_date, price_list, transcript_time) ==
    LET day_before_price == NearestBar(price_list, earnings_date, -1)
        day_after_price == NearestBar(price_list, earnings_date, 1)
    IN  IF ~HasBar(price_list, earnings_date) \/ day_before_price = NoPrice
             \/ transcript_time = "None"
        THEN NoneTriple
        ELSE IF transcript_time = "BMO"
        THEN [earnings_time |-> "BMO",
              price_before |-> day_before_price,
              price_after |-> BarAt(price_list, earnings_date)]
        ELSE IF day_after_price # NoPrice
        THEN [earnings_time |-> "AMC",
              price_before |-> BarAt(price_list, earnings_date),
              price_after |-> day_after_price]
        ELSE NoneTriple

DeterminePrices(earnings_date, price_list, transcript_time) ==
    LET earnings_day_price ==
            IF HasBar(price_list, earnings_date) THEN BarAt(price_list, earnings_date)
            ELSE NoPrice
        day_before_price == NearestBar(price_list, earnings_date, -1)
        day_after_price == NearestBar(price_list, earnings_date, 1)
    IN  IF earnings_day_price = NoPrice /\ day_after_price # NoPrice
        THEN IF transcript_time # "None"
             THEN [earnings_time |-> transcript_time,
                   price_before |-> day_before_price,
                   price_after |-> day_after_price]
             ELSE NoneTriple
        ELSE IF earnings_day_price = NoPrice \/ day_before_price = NoPrice
        THEN NoneTriple
        ELSE IF transcript_time = "None"
        THEN NoneTriple
        ELSE IF transcript_time = "BMO"
        THEN [earnings_time |-> "BMO",
              price_before |-> day_before_price,
              price_after |-> earnings_day_price]
        ELSE IF day_after_price # NoPrice
        THEN [earnings_time |-> "AMC",
              price_before |-> earnings_day_price,
              price_after |-> day_after_price]
        ELSE NoneTriple

DeterminePricesFallback(earnings_date, price_list) ==
    LET day_after_price == NearestBar(price_list, earnings_date, 1)
        earnings_day_price ==
            IF HasBar(price_list, earnings_date) THEN BarAt(price_list, earnings_date)
            ELSE NearestBar(price_list, earnings_date, -1)
    IN  IF earnings_day_price # NoPrice /\ day_after_price # NoPrice
        THEN [earnings_time |-> "None",
              price_before |-> earnings_day_price,
              price_after |-> day_after_price]
        ELSE NoneTriple

\* `if not price_before or not price_after`
Unresolved(triple) == triple.price_before = NoPrice \/ triple.price_after = NoPrice

----------------------------------------------------------------------------
(* FMPService.get_price_before_earnings, get_historical_price,               *)
(* get_next_trading_day_price                                              *)

LatestBar(bars) == CHOOSE b \in bars : \A c \in bars : c.date <= b.date
EarliestBar(bars) == CHOOSE b \in bars : \A c \in bars : b.date <= c.date

PriceBeforeEarnings(bars, earnings_date) ==
    LET historical == RangeBars(bars, earnings_date - HistoricalDays, earnings_date)
        at_or_before == { b \in historical : b.date <= earnings_date }
    IN  IF historical = {} \/ at_or_before = {} THEN NoPrice
        ELSE LatestBar(at_or_before)

HistoricalPrice(bars, target_date) ==
    LET historical == RangeBars(bars, target_date - HistoricalDays,
                                target_date + HistoricalDays)
        at_or_after == { b \in historical : b.date >= target_date }
    IN  IF historical = {} THEN NoPrice
        ELSE IF at_or_after # {} THEN EarliestBar(at_or_after)
        ELSE LatestBar(historical)

NextTradingDayPrice(bars, earnings_date) == HistoricalPrice(bars, earnings_date + 1)

----------------------------------------------------------------------------
(* The change and the record *)

\* the threshold test left out
NeverBelow(before, after) == FALSE

\* abs(price_change_pct) < threshold, on the exact quotient (before > 0)
BelowThreshold(before, after) ==
    Abs(after - before) * PctScale < PriceChangeThreshold * before

\* the quotient cut after 4 decimals instead of rounded
TruncatedChange(before, after) ==
    LET q == (Abs(after - before) * PctScale) \div before
    IN  IF after < before THEN -q ELSE q

\* round((after - before) / before, 4) in units of 1/10000: to the nearest unit,
\* a tie to the even one
RoundedChange(before, after) ==
    LET n == Abs(after - before) * PctScale
        q == n \div before
        r == n % before
        m == IF 2 * r > before \/ (2 * r = before /\ q % 2 = 1) THEN q + 1 ELSE q
    IN  IF after < before THEN -m ELSE m

BacktestResult(symbol, market_cap, earnings_date, triple) ==
    [symbol |-> symbol,
     market_cap |-> market_cap,
     earnings_date |-> earnings_date,
     earnings_time |-> triple.earnings_time,
     price_before |-> triple.price_before.close,
     price_after |-> triple.price_after.close,
     price_change_pct |-> RoundedChange(triple.price_before.close,
                                        triple.price_after.close),
     date_before |-> triple.price_before.date,
     date_after |-> triple.price_after.date]

----------------------------------------------------------------------------
(* list.sort(key=..., reverse=True): stable, equal keys keep their order *)

SortKey(x, key) == IF key = "change" THEN Abs(x.price_change_pct) ELSE x.earnings_date

\* an insertion that puts x before the elements of equal key
InsertBeforeEqual(sorted, x, key) ==
    LET n == Cardinality({ k \in 1..Len(sorted) : SortKey(sorted[k], key) > SortKey(x, key) })
    IN  SubSeq(sorted, 1, n) \o << x >> \o SubSeq(sorted, n + 1, Len(sorted))

InsertDescending(sorted, x, key) ==
    LET n == Cardinality({ k \in 1..Len(sorted) : SortKey(sorted[k], key) >= SortKey(x, key) })
    IN  SubSeq(sorted, 1, n) \o << x >> \o SubSeq(sorted, n + 1, Len(sorted))

RECURSIVE SortDescending(_, _)
SortDescending(seq, key) ==
    IF seq = << >> THEN << >>
    ELSE InsertDescending(SortDescending(SubSeq(seq, 1, Len(seq) - 1), key),
                          seq[Len(seq)], key)

----------------------------------------------------------------------------
(* run_backtest: the large-cap filter and the de-duplication *)

LargeCapFilter(events, large_cap_symbols) ==
    IF large_cap_symbols # {}
    THEN SelectSeq(events, LAMBDA e : e.symbol \in large_cap_symbols)
    ELSE events

\* no de-duplication
KeepAll(events, seen_events, k) == events

RECURSIVE Deduplicate(_, _, _)
Deduplicate(events, seen_events, k) ==
    IF k > Len(events) THEN << >>
    ELSE LET event_key == CacheKey(events[k].symbol, events[k].earnings_date)
         IN  IF event_key \in seen_events
             THEN Deduplicate(events, seen_events, k + 1)
             ELSE << events[k] >> \o Deduplicate(events, seen_events \cup { event_key }, k + 1)

----------------------------------------------------------------------------
(* Upstream responses *)

Put(f, k, v) == [x \in (DOMAIN f) \cup { k } |-> IF x = k THEN v ELSE f[x]]

\* whether an upstream call fails: either way, unless the domain names the
\* calls that fail
Chance(D, call) == IF "fails" \in DOMAIN D THEN { call \in D.fails } ELSE BOOLEAN

\* the bar series the price source can hold for a symbol
SeriesOf(D, symbol) ==
    IF "series_of" \in DOMAIN D THEN { D.series_of[symbol] } ELSE D.series

ProfileFailed == [status |-> "fail", market_cap |-> 0]
ProfileMissing == [status |-> "none", market_cap |-> 0]
ProfileOf(cap) == [status |-> "ok", market_cap |-> cap]

\* the calendar's rows for [start_date, end_date]: up to maxEvents rows, row k
\* carrying epsActual = k so that two rows of one (symbol, date) differ
CalendarResponses(D, r) ==
    IF "calendar" \in DOMAIN D THEN { D.calendar } ELSE
    LET days == { d \in D.eventDays : r.start_date <= d /\ d <= r.end_date }
        cells == D.tickers \X days
    IN  UNION { { [k \in 1..n |-> [symbol |-> f[k][1],
                                    earnings_date |-> f[k][2],
                                    eps_actual |-> k]] : f \in [1..n -> cells] }
                : n \in 0..D.maxEvents }

\* earning-call-transcript-dates: the symbol's announcement dates, any order, not
\* confined to the range asked about
HistoryResponses(D) ==
    UNION { [1..n -> D.historyDays] : n \in 0..D.maxEvents }

\* the first of the two candidate quarters' transcripts that decides
TranscriptVerdict(first, second) ==
    IF first \in { "BMO", "AMC" } THEN first
    ELSE IF second \in { "BMO", "AMC" } THEN second
    ELSE "None"

----------------------------------------------------------------------------
(* State *)

NoUpstream == [fails |-> {}]
NoFirstCall == [outcome |-> "pending", returned |-> << >>]
NoResponse == [status |-> "pending", body |-> << >>, save |-> "none"]

\* the variables that stay as they are outside the repeated and the routed request
\* no get_earnings_time_from_transcript call is followed quarter by quarter
NoTranscriptCall ==
    [at |-> "idle", month |-> 0, possible_quarters |-> << >>, asked |-> << >>,
     heard |-> << >>, verdicts |-> << >>, result |-> "pending"]

Apart == << upstream, first_call, response, history, transcript_call >>

\* a BacktestService (with its FMPService and FinnhubService) before a request
Construction(D) ==
    /\ today \in D.todays
    /\ pc = "idle"
    /\ op = "none"
    /\ request = NoRequest
    /\ earnings_events = << >>
    /\ filtered_events = << >>
    /\ all_profiles = << >>
    /\ finnhub_times = << >>
    /\ i = 0
    /\ market = {}
    /\ prices = << >>
    /\ earnings_time_value = "None"
    /\ via = "none"
    /\ resolved = NoneTriple
    /\ results = << >>
    /\ returned = << >>
    /\ outcome = "pending"
    /\ large_cap_cache = << >>
    /\ earnings_time_cache = << >>
    /\ finnhub_call = NoCall
    /\ lookups = << >>
    /\ callers = << >>

Init(D) ==
    /\ Construction(D)
    /\ upstream = NoUpstream
    /\ first_call = NoFirstCall
    /\ response = NoResponse
    /\ history = << >>
    /\ transcript_call = NoTranscriptCall

\* the variables of one loop iteration, reassigned by the next one
IterationVars == << market, prices, earnings_time_value, via, resolved >>

ClearIteration ==
    /\ market' = {}
    /\ prices' = << >>
    /\ earnings_time_value' = "None"
    /\ via' = "none"
    /\ resolved' = NoneTriple

Return(list, how) ==
    /\ returned' = list
    /\ outcome' = how
    /\ pc' = "done"

CurrentEvent == filtered_events[i]

----------------------------------------------------------------------------
(* BacktestService.run_backtest *)

StartRunBacktest(D) ==
    /\ pc = "idle"
    /\ \E r \in D.requests :
          request' = [NoRequest EXCEPT !.start_date = r.start_date,
                                       !.end_date = r.end_date,
                                       !.min_market_cap = r.min_market_cap]
    /\ op' = "run"
    /\ pc' = "calendar"
    /\ UNCHANGED << lookups, callers, Apart >>
    /\ UNCHANGED << today, earnings_events, filtered_events, all_profiles, finnhub_times,
                    i, IterationVars, results, returned, outcome, large_cap_cache,
                    earnings_time_cache, finnhub_call >>

\* get_earnings_calendar, and `if not earnings_events: return results`
FetchCalendar(D) ==
    /\ pc = "calendar"
    /\ \E failed \in Chance(D, "calendar") :
       \E rows \in IF failed THEN { << >> } ELSE CalendarResponses(D, request) :
          /\ earnings_events' = CalendarEvents(rows)
          /\ IF earnings_events' = << >>
             THEN Return(<< >>, "list")
             ELSE pc' = "screener" /\ UNCHANGED << returned, outcome >>
    /\ UNCHANGED << lookups, callers, Apart >>
    /\ UNCHANGED << today, op, request, filtered_events, all_profiles, finnhub_times,
                    i, IterationVars, results, large_cap_cache, earnings_time_cache,
                    finnhub_call >>

\* a hit that hands out nothing
NoCachedSymbols(cache, min_market_cap) == {}

\* `return self._large_cap_cache[min_market_cap]`
CachedSymbols(cache, min_market_cap) == cache[min_market_cap]

\* get_large_cap_symbols_set, the filter and the de-duplication
FetchLargeCap(D) ==
    /\ pc = "screener"
    /\ LET cap == request.min_market_cap
           Continue(large_cap_symbols) ==
               /\ filtered_events' =
                      Deduplicate(LargeCapFilter(earnings_events, large_cap_symbols), {}, 1)
               /\ pc' = "profiles"
       IN  IF cap \in DOMAIN large_cap_cache
           THEN Continue(CachedSymbols(large_cap_cache, cap)) /\ UNCHANGED large_cap_cache
           ELSE \E failed \in Chance(D, "screener") :
                   IF failed
                   THEN Continue({}) /\ UNCHANGED large_cap_cache
                   ELSE \E symbols \in D.screens :
                           /\ large_cap_cache' = Put(large_cap_cache, cap, symbols)
                           /\ Continue(symbols)
    /\ UNCHANGED << lookups, callers, Apart >>
    /\ UNCHANGED << today, op, request, earnings_events, all_profiles, finnhub_times,
                    i, IterationVars, results, returned, outcome, earnings_time_cache,
                    finnhub_call >>

\* batch_get_profiles(unique_symbols): a failed or empty lookup leaves no entry.
\* earnings_events is not read after the filter and is dropped here.
BatchProfiles(D) ==
    /\ pc = "profiles"
    /\ LET unique_symbols == { filtered_events[k].symbol : k \in 1..Len(filtered_events) }
       IN  \E got \in [unique_symbols -> D.profiles] :
              all_profiles' =
                  [s \in { s \in unique_symbols : got[s].status = "ok" } |->
                      [market_cap |-> got[s].market_cap]]
    /\ earnings_events' = << >>
    /\ pc' = "prewarm"
    /\ UNCHANGED << lookups, callers, Apart >>
    /\ UNCHANGED << today, op, request, filtered_events, finnhub_times,
                    i, IterationVars, results, returned, outcome, large_cap_cache,
                    earnings_time_cache, finnhub_call >>

----------------------------------------------------------------------------
(* BacktestService._get_finnhub_earnings_times and                          *)
(* FinnhubService.batch_get_earnings_time                                  *)

\* the rows the provider's calendar can hold for the events at hand
EventKeys(from_date, to_date) ==
    { CacheKey(filtered_events[k].symbol, filtered_events[k].earnings_date) :
        k \in { k \in 1..Len(filtered_events) :
                  /\ from_date <= filtered_events[k].earnings_date
                  /\ filtered_events[k].earnings_date <= to_date } }

Prewarm(D) ==
    /\ pc = "prewarm"
    /\ LET finnhub_cutoff == today - FinnhubDays
           query_start == Max2(request.start_date, finnhub_cutoff)
           query_end == Min2(request.end_date, today)
           keys == EventKeys(query_start, query_end)
           Empty == /\ finnhub_times' = << >>
                    /\ UNCHANGED earnings_time_cache
       IN  IF query_start > query_end
           THEN Empty /\ UNCHANGED finnhub_call
           ELSE IF today - query_start > FinnhubDays
           THEN Empty /\ UNCHANGED finnhub_call
           ELSE /\ finnhub_call' =
                       [kind |-> "bulk", from_date |-> query_start, to_date |-> query_end,
                        symbol |-> << >>, earnings_date |-> 0, found |-> FALSE,
                        hour |-> ""]
                /\ \E failed \in Chance(D, "bulk") :
                      IF failed
                      THEN Empty
                      ELSE \E hour \in [keys -> D.hours] :
                         LET timed == { key \in keys : MapHourToTime(hour[key]) # "None" }
                         IN  /\ finnhub_times' =
                                    [key \in timed |-> MapHourToTime(hour[key])]
                             /\ earnings_time_cache' =
                                    [key \in (DOMAIN earnings_time_cache) \cup timed |->
                                        IF key \in timed THEN MapHourToTime(hour[key])
                                        ELSE earnings_time_cache[key]]
    /\ i' = 1
    /\ pc' = "loop"
    /\ UNCHANGED << lookups, callers, Apart >>
    /\ UNCHANGED << today, op, request, earnings_events, filtered_events, all_profiles,
                    IterationVars, results, returned, outcome, large_cap_cache >>

----------------------------------------------------------------------------
(* The loop over the events: run_backtest and search_stock_earnings *)

\* `break` in the place of `continue`: the events after this one are left out
SkipRest ==
    /\ i' = Len(filtered_events) + 1
    /\ pc' = "loop"
    /\ ClearIteration
    /\ finnhub_call' = NoCall

Skip ==
    /\ i' = i + 1
    /\ pc' = "loop"
    /\ ClearIteration
    /\ finnhub_call' = NoCall

\* the market-cap check (run_backtest only), get_prices_around_earnings and
\* `if not prices or len(prices) < 2`
EventPrices(D) ==
    /\ pc = "loop"
    /\ i <= Len(filtered_events)
    /\ LET event == CurrentEvent
           small == \/ event.symbol \notin DOMAIN all_profiles
                    \/ all_profiles[event.symbol].market_cap < request.min_market_cap
       IN  IF op = "run" /\ small
           THEN Skip
           ELSE \E failed \in Chance(D, "prices") :
                IF failed
                THEN Skip
                ELSE \E series \in SeriesOf(D, event.symbol), order \in D.orders :
                      LET bars == Market(series, event.earnings_date, today)
                          got == Ordered(RangeBars(bars, event.earnings_date - AroundDays,
                                                   event.earnings_date + AroundDays), order)
                      IN  IF Len(got) < 2
                          THEN Skip
                          ELSE /\ market' = bars
                               /\ prices' = got
                               /\ pc' = "timing"
                               /\ UNCHANGED << i, earnings_time_value, via, resolved,
                                               finnhub_call >>
    /\ UNCHANGED << lookups, callers, Apart >>
    /\ UNCHANGED << today, op, request, earnings_events, filtered_events, all_profiles,
                    finnhub_times, results, returned, outcome, large_cap_cache,
                    earnings_time_cache >>

\* the test left out: every date goes on to the single lookup
AnyDaysDiff(days_diff) == TRUE

\* `if days_diff <= 30`
WithinFinnhubDays(days_diff) == days_diff <= FinnhubDays

\* _get_earnings_time, step 1: the bulk result; and the test that guards step 2
TimingBulk ==
    /\ pc = "timing"
    /\ LET cache_key == CacheKey(CurrentEvent.symbol, CurrentEvent.earnings_date)
           days_diff == today - CurrentEvent.earnings_date
       IN  IF cache_key \in DOMAIN finnhub_times
           THEN /\ earnings_time_value' = finnhub_times[cache_key]
                /\ via' = "bulk"
                /\ pc' = "resolve"
           ELSE /\ pc' = IF WithinFinnhubDays(days_diff) THEN "single" ELSE "transcript"
                /\ UNCHANGED << earnings_time_value, via >>
    /\ UNCHANGED << lookups, callers, Apart >>
    /\ UNCHANGED << today, op, request, earnings_events, filtered_events, all_profiles,
                    finnhub_times, i, market, prices, resolved, results, returned, outcome,
                    large_cap_cache, earnings_time_cache, finnhub_call >>

\* _get_earnings_time, step 2: FinnhubService.get_earnings_time
SingleLookup(D) ==
    /\ pc = "single"
    /\ LET symbol == CurrentEvent.symbol
           earnings_date == CurrentEvent.earnings_date
           cache_key == CacheKey(symbol, earnings_date)
           Got(finnhub_time) ==
               IF finnhub_time # "None"
               THEN /\ earnings_time_value' = finnhub_time
                    /\ via' = "single"
                    /\ pc' = "resolve"
               ELSE /\ pc' = "transcript"
                    /\ UNCHANGED << earnings_time_value, via >>
           Store(result) ==
               /\ earnings_time_cache' = Put(earnings_time_cache, cache_key, result)
               /\ Got(result)
       IN  IF cache_key \in DOMAIN earnings_time_cache
           THEN /\ Got(earnings_time_cache[cache_key])
                /\ UNCHANGED << earnings_time_cache, finnhub_call >>
           ELSE IF today - earnings_date > FinnhubDays
           THEN Store("None") /\ UNCHANGED finnhub_call
           ELSE LET Asked(found, hour) ==
                        finnhub_call' =
                            [kind |-> "single", from_date |-> earnings_date - 1,
                             to_date |-> earnings_date + 1, symbol |-> symbol,
                             earnings_date |-> earnings_date, found |-> found,
                             hour |-> hour]
                IN  \E missing \in Chance(D, "single") :
                       IF missing
                       THEN Asked(FALSE, "") /\ Store("None")
                       ELSE \E hour \in D.hours :
                               Asked(TRUE, hour) /\ Store(MapHourToTime(hour))
    /\ UNCHANGED << lookups, callers, Apart >>
    /\ UNCHANGED << today, op, request, earnings_events, filtered_events, all_profiles,
                    finnhub_times, i, market, prices, resolved, results, returned, outcome,
                    large_cap_cache >>

\* _get_earnings_time, step 3: FMPService.get_earnings_time_from_transcript
Transcript(D) ==
    /\ pc = "transcript"
    /\ \E first \in D.transcripts, second \in D.transcripts :
          earnings_time_value' = TranscriptVerdict(first, second)
    /\ via' = "transcript"
    /\ pc' = "resolve"
    /\ UNCHANGED << lookups, callers, Apart >>
    /\ UNCHANGED << today, op, request, earnings_events, filtered_events, all_profiles,
                    finnhub_times, i, market, prices, resolved, results, returned, outcome,
                    large_cap_cache, earnings_time_cache, finnhub_call >>

\* _determine_prices; in search_stock_earnings _determine_prices_fallback after it
\* the strict resolution alone, for the search as well
ResolveStrictly(which, earnings_date, price_list, transcript_time) ==
    DeterminePrices(earnings_date, price_list, transcript_time)

ResolveWindow(which, earnings_date, price_list, transcript_time) ==
    LET strict == DeterminePrices(earnings_date, price_list, transcript_time)
    IN  IF which = "search" /\ Unresolved(strict)
        THEN DeterminePricesFallback(earnings_date, price_list)
        ELSE strict

Resolve ==
    /\ pc = "resolve"
    /\ resolved' = ResolveWindow(op, CurrentEvent.earnings_date, prices, earnings_time_value)
    /\ pc' = "emit"
    /\ UNCHANGED << lookups, callers, Apart >>
    /\ UNCHANGED << today, op, request, earnings_events, filtered_events, all_profiles,
                    finnhub_times, i, market, prices, earnings_time_value, via, results,
                    returned, outcome, large_cap_cache, earnings_time_cache,
                    finnhub_call >>

\* whether the loop appends a record for the resolved pair
Emits(which, triple) ==
    /\ ~Unresolved(triple)
    /\ which = "run" => ~BelowThreshold(triple.price_before.close, triple.price_after.close)

Emit ==
    /\ pc = "emit"
    /\ results' =
           IF Emits(op, resolved)
           THEN Append(results,
                       BacktestResult(CurrentEvent.symbol,
                                      all_profiles[CurrentEvent.symbol].market_cap,
                                      CurrentEvent.earnings_date, resolved))
           ELSE results
    /\ Skip
    /\ UNCHANGED << lookups, callers, Apart >>
    /\ UNCHANGED << today, op, request, earnings_events, filtered_events, all_profiles,
                    finnhub_times, returned, outcome, large_cap_cache, earnings_time_cache >>

\* results.sort(...) and return; the handler's maps end with it
SortedResults(which, list) ==
    SortDescending(list, IF which = "run" THEN "change" ELSE "date")

Finish ==
    /\ pc = "loop"
    /\ i > Len(filtered_events)
    /\ results' = SortedResults(op, results)
    /\ Return(results', "list")
    /\ all_profiles' = << >>
    /\ finnhub_times' = << >>
    /\ UNCHANGED << lookups, callers, Apart >>
    /\ UNCHANGED << today, op, request, earnings_events, filtered_events, i, IterationVars,
                    large_cap_cache, earnings_time_cache, finnhub_call >>

----------------------------------------------------------------------------
(* BacktestService.search_stock_earnings *)

StartSearch(D) ==
    /\ pc = "idle"
    /\ \E r \in D.searches :
          request' = [NoRequest EXCEPT !.symbol = r.symbol,
                                       !.start_date = r.start_date,
                                       !.end_date = r.end_date]
    /\ op' = "search"
    /\ pc' = "profile"
    /\ UNCHANGED << lookups, callers, Apart >>
    /\ UNCHANGED << today, earnings_events, filtered_events, all_profiles, finnhub_times,
                    i, IterationVars, results, returned, outcome, large_cap_cache,
                    earnings_time_cache, finnhub_call >>

\* get_company_profile: a failed request raises out of the handler
SearchProfile(D) ==
    /\ pc = "profile"
    /\ \E profile \in D.profiles :
          IF profile.status = "fail"
          THEN Return(<< >>, "raised") /\ UNCHANGED all_profiles
          ELSE IF profile.status = "none"
          THEN Return(<< >>, "list") /\ UNCHANGED all_profiles
          ELSE /\ all_profiles' = Put(<< >>, request.symbol,
                                      [market_cap |-> profile.market_cap])
               /\ pc' = "history"
               /\ UNCHANGED << returned, outcome >>
    /\ UNCHANGED << lookups, callers, Apart >>
    /\ UNCHANGED << today, op, request, earnings_events, filtered_events, finnhub_times,
                    i, IterationVars, results, large_cap_cache, earnings_time_cache,
                    finnhub_call >>

\* get_stock_earnings_history: the dates in range, newest first
StockEarningsHistory(symbol, dates, from_date, to_date) ==
    LET in_range == SelectSeq(dates, LAMBDA d : ~(d < from_date \/ d > to_date))
        events == [k \in 1..Len(in_range) |->
                      [symbol |-> symbol, earnings_date |-> in_range[k], eps_actual |-> 0]]
    IN  SortDescending(events, "date")

SearchHistory(D) ==
    /\ pc = "history"
    /\ \E failed \in BOOLEAN :
       \E dates \in IF failed THEN { << >> } ELSE HistoryResponses(D) :
          /\ filtered_events' = StockEarningsHistory(request.symbol, dates,
                                                     request.start_date, request.end_date)
          /\ IF filtered_events' = << >>
             THEN Return(<< >>, "list")
             ELSE pc' = "prewarm" /\ UNCHANGED << returned, outcome >>
    /\ UNCHANGED << lookups, callers, Apart >>
    /\ UNCHANGED << today, op, request, earnings_events, all_profiles, finnhub_times,
                    i, IterationVars, results, large_cap_cache, earnings_time_cache,
                    finnhub_call >>

----------------------------------------------------------------------------
(* BacktestService.get_single_stock_backtest *)

\* the record, as a list of one; << >> for None
SingleStockBacktest(symbol, earnings_date, profile, bars) ==
    LET price_before == PriceBeforeEarnings(bars, earnings_date)
        price_after == NextTradingDayPrice(bars, earnings_date)
    IN  IF profile.status # "ok" \/ price_before = NoPrice \/ price_after = NoPrice
        THEN << >>
        ELSE << BacktestResult(symbol, profile.market_cap, earnings_date,
                               [earnings_time |-> "None",
                                price_before |-> price_before,
                                price_after |-> price_after]) >>

GetSingleStockBacktest(D) ==
    /\ pc = "idle"
    /\ \E r \in D.singles, profile \in D.profiles, series \in D.series,
          prices_failed \in BOOLEAN :
          /\ request' = [NoRequest EXCEPT !.symbol = r.symbol,
                                          !.earnings_date = r.earnings_date]
          /\ market' = Market(series, r.earnings_date, today)
          /\ IF profile.status = "fail" \/ (profile.status = "ok" /\ prices_failed)
             THEN Return(<< >>, "raised")
             ELSE LET record == SingleStockBacktest(r.symbol, r.earnings_date, profile,
                                                    market')
                  IN  Return(record, IF record = << >> THEN "none" ELSE "record")
    /\ op' = "single"
    /\ UNCHANGED << lookups, callers, Apart >>
    /\ UNCHANGED << today, earnings_events, filtered_events, all_profiles, finnhub_times,
                    i, prices, earnings_time_value, via, resolved, results,
                    large_cap_cache, earnings_time_cache, finnhub_call >>

----------------------------------------------------------------------------
(* The engine over a domain of inputs and upstream responses *)

Engine(D) ==
    \/ StartRunBacktest(D)
    \/ FetchCalendar(D)
    \/ FetchLargeCap(D)
    \/ BatchProfiles(D)
    \/ Prewarm(D)
    \/ EventPrices(D)
    \/ TimingBulk
    \/ SingleLookup(D)
    \/ Transcript(D)
    \/ Resolve
    \/ Emit
    \/ Finish
    \/ StartSearch(D)
    \/ SearchProfile(D)
    \/ SearchHistory(D)
    \/ GetSingleStockBacktest(D)

RECURSIVE Pow2(_)
Pow2(n) == IF n <= 0 THEN 1 ELSE 2 * Pow2(n - 1)

\* Requests of several events: the day before each date closes at 11, the day and
\* the next at 9 or 10 or have no bar; the provider knows "amc" or nothing, the
\* transcript says BMO or fails.
Orchestration ==
    [todays |-> { Day0 + 2 },
     requests |-> { [start_date |-> Day0, end_date |-> Day0 + 1, min_market_cap |-> 10] },
     searches |-> { [symbol |-> AAPL, start_date |-> Day0, end_date |-> Day0 + 1] },
     singles |-> { [symbol |-> AAPL, earnings_date |-> Day0] },
     tickers |-> { AAPL, MSFT },
     eventDays |-> { Day0, Day0 + 1 },
     historyDays |-> { Day0, Day0 + 1, Day0 + 2 },
     maxEvents |-> MaxEvents,
     screens |-> { {}, { AAPL }, { AAPL, MSFT } },
     profiles |-> { ProfileFailed, ProfileMissing, ProfileOf(5), ProfileOf(10) },
     hours |-> { "amc" },
     transcripts |-> { "fail", "BMO" },
     series |-> { s \in [(-1)..1 -> { 0, 9, 10, 11 }] :
                    s[-1] = 11 /\ s[0] # 11 /\ s[1] # 11 },
     orders |-> { "desc" }]

\* One event, dated from before today - 30 to after today: every hour code, every
\* transcript outcome, bars on the day and the next with and without one before.
Timing ==
    [todays |-> { Day0 - 1, Day0 + 1, Day0 + FinnhubDays, Day0 + FinnhubDays + 1 },
     requests |-> { [start_date |-> Day0, end_date |-> Day0 + 1, min_market_cap |-> 10] },
     searches |-> { [symbol |-> AAPL, start_date |-> Day0, end_date |-> Day0 + 1] },
     singles |-> { [symbol |-> AAPL, earnings_date |-> Day0] },
     tickers |-> { AAPL, BRKB, TCEHY },
     eventDays |-> { Day0, Day0 + 1 },
     historyDays |-> { Day0, Day0 + 1 },
     maxEvents |-> 1,
     screens |-> { {}, { AAPL } },
     profiles |-> { ProfileFailed, ProfileMissing, ProfileOf(10) },
     hours |-> { "bmo", "amc", "dmh", "", "AMC", "Bmo", "PM", NoHour },
     transcripts |-> { "fail", "empty", "nomatch", "BMO", "AMC" },
     series |-> { s \in [(-2)..1 -> { 0, 170, 190 }] :
                    s[-2] # 190 /\ s[-1] # 190 /\ s[0] = 170 /\ s[1] = 190 },
     orders |-> { "asc", "desc" }]

\* One event and every sparse set of bars within Span days of it; the close
\* doubles from one day to the next. Two more series move by a percent or two
\* between the day (or the day before) and the day after.
Window ==
    [todays |-> { Day0 + AroundDays },
     requests |-> { [start_date |-> Day0, end_date |-> Day0, min_market_cap |-> 10] },
     searches |-> { [symbol |-> AAPL, start_date |-> Day0, end_date |-> Day0] },
     singles |-> { [symbol |-> AAPL, earnings_date |-> Day0] },
     tickers |-> { AAPL },
     eventDays |-> { Day0 },
     historyDays |-> { Day0 },
     maxEvents |-> 1,
     screens |-> { { AAPL } },
     profiles |-> { ProfileOf(10) },
     hours |-> { "bmo", "dmh" },
     transcripts |-> { "nomatch", "AMC" },
     series |-> { [o \in (-Span)..Span |-> IF o \in days THEN Pow2(o + Span) ELSE 0] :
                    days \in SUBSET ((-Span)..Span) }
                \cup { [o \in (-Span)..Span |-> IF o \in { first, 1 } THEN 100 + o ELSE 0] :
                          first \in { -1, 0 } },
     orders |-> { "desc" }]

\* One event with bars on the day before, the day and the day after: every close
\* of 9..(8 + MaxClose), and 32 and 33 for a change that lies halfway.
Pricing ==
    [todays |-> { Day0 + 1 },
     requests |-> { [start_date |-> Day0, end_date |-> Day0, min_market_cap |-> 10] },
     searches |-> { [symbol |-> AAPL, start_date |-> Day0, end_date |-> Day0] },
     singles |-> { [symbol |-> AAPL, earnings_date |-> Day0] },
     tickers |-> { AAPL },
     eventDays |-> { Day0 },
     historyDays |-> { Day0 },
     maxEvents |-> 1,
     screens |-> { { AAPL } },
     profiles |-> { ProfileOf(10) },
     hours |-> { "bmo", "amc", "dmh" },
     transcripts |-> { "nomatch" },
     series |-> [(-1)..1 -> { 0, 32, 33 } \cup { 8 + c : c \in 1..MaxClose }],
     orders |-> { "asc", "desc" }]

Next == Engine(Orchestration)
Spec == Init(Orchestration) /\ [][Next]_vars

NextTiming == Engine(Timing)
SpecTiming == Init(Timing) /\ [][NextTiming]_vars

NextWindow == Engine(Window)
SpecWindow == Init(Window) /\ [][NextWindow]_vars

\* One event whose bars lie on any of the days 1, 2, 5 and 6 before the date, the
\* date itself, and the days 1, 2, 5 and 6 after it; the source answers oldest
\* first or newest first.
Gaps ==
    [Window EXCEPT
        !.series =
            { [o \in (-Span)..Span |-> IF o \in days THEN Pow2(o + Span) ELSE 0] :
                days \in { prior \cup day \cup later :
                             prior \in SUBSET { -LookDays - 1, -LookDays, -2, -1 },
                             day \in SUBSET { 0 },
                             later \in SUBSET { 1, 2, LookDays, LookDays + 1 } } },
        !.orders = { "asc", "desc" }]

NextGaps == Engine(Gaps)
SpecGaps == Init(Gaps) /\ [][NextGaps]_vars

NextPricing == Engine(Pricing)
SpecPricing == Init(Pricing) /\ [][NextPricing]_vars

----------------------------------------------------------------------------
(* FMPService.batch_get_profiles, task by task *)

Alphabet ==
    << "A", "B", "C", "D", "E", "F", "G", "H", "I", "J", "K", "L", "M",
       "N", "O", "P", "Q", "R", "S", "T", "U", "V", "W", "X", "Y", "Z" >>

\* the symbols asked about: n one-letter tickers
BatchSymbols(n) == { << Alphabet[k] >> : k \in 1..n }

\* what the profile endpoint can answer for a symbol: the request for "A" may
\* fail, "B" is unknown to the endpoint, every other symbol has a profile
BatchAnswers(symbol) ==
    IF symbol = << "A" >> THEN { ProfileFailed, ProfileOf(5) }
    ELSE IF symbol = << "B" >> THEN { ProfileMissing }
    ELSE { ProfileOf(10) }

\* fetch_profile without its try / except: the exception stays in the result
FetchProfileRaising(answer) == answer

\* fetch_profile: (symbol, profile), and (symbol, None) when the lookup raised
FetchProfile(answer) == IF answer.status = "fail" THEN ProfileMissing ELSE answer

\* a semaphore that never blocks
SlotAlwaysFree(in_flight) == TRUE

\* `async with semaphore`: entered while fewer than PoolSize tasks hold it
SlotFree(in_flight) == in_flight < PoolSize

Waiting == [at |-> "waiting", answer |-> ProfileMissing, result |-> ProfileMissing]

InFlight == { s \in DOMAIN lookups : lookups[s].at = "running" }

InitBatch == Init(Pricing)

\* tasks = [fetch_with_limit(symbol) for symbol in symbols]
BatchStart ==
    /\ pc = "idle"
    /\ \E n \in 0..(PoolSize + MaxExtra) :
          lookups' = [s \in BatchSymbols(n) |-> Waiting]
    /\ op' = "batch"
    /\ pc' = "gather"
    /\ UNCHANGED Apart
    /\ UNCHANGED << today, request, earnings_events, filtered_events, all_profiles,
                    finnhub_times, i, IterationVars, results, returned, outcome,
                    large_cap_cache, earnings_time_cache, finnhub_call, callers >>

\* a task enters `async with semaphore` and sends its request
Acquire ==
    /\ pc = "gather"
    /\ \E s \in DOMAIN lookups :
          /\ lookups[s].at = "waiting"
          /\ SlotFree(Cardinality(InFlight))
          /\ lookups' = [lookups EXCEPT ![s].at = "running"]
    /\ UNCHANGED Apart
    /\ UNCHANGED << today, pc, op, request, earnings_events, filtered_events,
                    all_profiles, finnhub_times, i, IterationVars, results, returned,
                    outcome, large_cap_cache, earnings_time_cache, finnhub_call, callers >>

\* the request of a running task ends; the task leaves the semaphore
Complete ==
    /\ pc = "gather"
    /\ \E s \in DOMAIN lookups :
          /\ lookups[s].at = "running"
          /\ \E answer \in BatchAnswers(s) :
                lookups' = [lookups EXCEPT ![s] = [at |-> "done", answer |-> answer,
                                                   result |-> FetchProfile(answer)]]
    /\ UNCHANGED Apart
    /\ UNCHANGED << today, pc, op, request, earnings_events, filtered_events,
                    all_profiles, finnhub_times, i, IterationVars, results, returned,
                    outcome, large_cap_cache, earnings_time_cache, finnhub_call, callers >>

\* results = await asyncio.gather(*tasks), which raises what a task raised;
\* `if profile: profiles[symbol] = profile`; return profiles
BatchReturn ==
    /\ pc = "gather"
    /\ \A s \in DOMAIN lookups : lookups[s].at = "done"
    /\ IF \E s \in DOMAIN lookups : lookups[s].result.status = "fail"
       THEN Return(<< >>, "raised") /\ UNCHANGED all_profiles
       ELSE /\ all_profiles' =
                   [s \in { s \in DOMAIN lookups : lookups[s].result.status = "ok" } |->
                       [market_cap |-> lookups[s].result.market_cap]]
            /\ Return(<< >>, "profiles")
    /\ UNCHANGED Apart
    /\ UNCHANGED << today, op, request, earnings_events, filtered_events,
                    finnhub_times, i, IterationVars, results, large_cap_cache,
                    earnings_time_cache, finnhub_call, lookups, callers >>

NextBatch == BatchStart \/ Acquire \/ Complete \/ BatchReturn
SpecBatch == InitBatch /\ [][NextBatch]_vars

\* the event loop runs every task that can run, and a request ends within
\* its timeout
SpecBatchFair == SpecBatch /\ WF_vars(NextBatch)

----------------------------------------------------------------------------
(* Properties of the records *)

\* the records the running handler has appended or returned
Records ==
    { results[k] : k \in 1..Len(results) } \cup { returned[k] : k \in 1..Len(returned) }

\* C1: every record of run_backtest or search_stock_earnings has its before bar
\* dated strictly earlier than its after bar, whatever the event date, the bars
\* and the timing verdict, by the strict resolution and by the fallback alike.
C1_BeforePrecedesAfter ==
    op \in { "run", "search" } => \A r \in Records : r.date_before < r.date_after

\* search_stock_earnings returned a record of the fallback for a date without a
\* bar, its neighbours two or more days away on either side
C1_FallbackOverSparseBars ==
    /\ op = "search"
    /\ outcome = "list"
    /\ Len(returned) = 1
    /\ returned[1].earnings_time = "None"
    /\ returned[1].date_before < returned[1].earnings_date - 1
    /\ returned[1].date_after > returned[1].earnings_date + 1

\* the bars of the price source on either side of the requested date
BarsUpTo(d) == { b \in market : b.date <= d }
BarsAfter(d) == { b \in market : b.date > d }

\* C2: a record of get_single_stock_backtest has for its before bar the latest
\* trading day on or before the date and for its after bar the earliest trading
\* day after it (before.date <= date < after.date), for every set of bars, one
\* with no bar after the date included.
C2_SingleAroundTheDate ==
    (op = "single" /\ outcome = "record") =>
        LET r == returned[1]
            d == request.earnings_date
        IN  /\ r.date_before <= d
            /\ d < r.date_after
            /\ \A b \in BarsUpTo(d) : b.date <= r.date_before
            /\ \A b \in BarsAfter(d) : r.date_after <= b.date

\* get_single_stock_backtest returned a record whose after bar is the before bar:
\* the source has no bar after the date
C2_AfterBarNotAfterTheDate ==
    /\ op = "single"
    /\ outcome = "record"
    /\ BarsAfter(request.earnings_date) = {}
    /\ returned[1].date_after = returned[1].date_before
    /\ returned[1].date_after = request.earnings_date

\* C3: _determine_prices with AMC and a bar on the event date and on the next
\* day returns (AMC, the event date's bar, the next day's bar); no bar before the
\* event date is needed.
C3_AfterCloseOnDayAndNext ==
    LET d == CurrentEvent.earnings_date
    IN  ( /\ op = "run"
          /\ pc = "emit"
          /\ earnings_time_value = "AMC"
          /\ HasBar(prices, d)
          /\ HasBar(prices, d + 1) ) =>
            resolved = [earnings_time |-> "AMC",
                        price_before |-> BarAt(prices, d),
                        price_after |-> BarAt(prices, d + 1)]

\* run_backtest resolved an AMC event with bars on the date and on the next day,
\* none before, to nothing
C3_DayAndNextButUnresolved ==
    /\ op = "run"
    /\ pc = "emit"
    /\ earnings_time_value = "AMC"
    /\ HasBar(prices, CurrentEvent.earnings_date)
    /\ HasBar(prices, CurrentEvent.earnings_date + 1)
    /\ BarsUpTo(CurrentEvent.earnings_date - 1) = {}
    /\ resolved = NoneTriple

----------------------------------------------------------------------------
(* Properties of the timing waterfall *)

\* the spec's example: AAPL announces on 2024-05-02 (Day0), the provider's bulk
\* answer is "amc", the price source has 170 on the day and 190 on the next and
\* nothing else, the market cap passes; the loop is about to append
C4Scenario ==
    /\ op = "run"
    /\ pc = "emit"
    /\ filtered_events = << [symbol |-> AAPL, earnings_date |-> Day0, eps_actual |-> 1] >>
    /\ market = { [date |-> Day0, close |-> 170], [date |-> Day0 + 1, close |-> 190] }
    /\ via = "bulk"
    /\ earnings_time_value = "AMC"
    /\ all_profiles[AAPL].market_cap = request.min_market_cap
    /\ results = << >>

C4Record ==
    [symbol |-> AAPL,
     market_cap |-> 10,
     earnings_date |-> Day0,
     earnings_time |-> "AMC",
     price_before |-> 170,
     price_after |-> 190,
     price_change_pct |-> 1176,
     date_before |-> Day0,
     date_after |-> Day0 + 1]

\* C4: in the example run_backtest ends with exactly one record: AMC, 170 before,
\* 190 after, a change of 0.1176.  (The event is the only one, so what the loop
\* leaves in results is what the handler sorts and returns.)
C4_EndToEnd == [][C4Scenario => results' = << C4Record >>]_vars

\* the example resolved to nothing
C4_ExampleUnresolved == C4Scenario /\ resolved = NoneTriple

\* the date lies more than 30 days before today
Old(d) == today - d > FinnhubDays

\* the loop is at an event
InIteration == pc \in { "timing", "single", "transcript", "resolve", "emit" }

\* C5: for an event dated more than 30 days before today the timing provider is
\* never called: the range of the bulk query excludes the date, the bulk result
\* holds nothing for it, no single lookup is made for it, and its verdict comes
\* from the transcript alone.
C5_OldDatesSkipTheProvider ==
    /\ finnhub_call.kind = "bulk" => ~Old(finnhub_call.from_date)
    /\ finnhub_call.kind = "single" => ~Old(finnhub_call.earnings_date)
    /\ \A key \in DOMAIN finnhub_times : ~Old(key[2])
    /\ (InIteration /\ Old(CurrentEvent.earnings_date)) =>
          /\ pc # "single"
          /\ finnhub_call.kind # "single"
          /\ pc \in { "resolve", "emit" } => via = "transcript"

\* an event dated 31 days back, in a request whose newer part was asked of the
\* provider in bulk, got AMC from the transcript
C5_OldEventTimedByTranscript ==
    /\ pc = "emit"
    /\ Old(CurrentEvent.earnings_date)
    /\ finnhub_call.kind = "bulk"
    /\ CurrentEvent.earnings_date < finnhub_call.from_date
    /\ via = "transcript"
    /\ earnings_time_value = "AMC"

\* C6: the single lookup is made for a (symbol, date) only when the bulk result
\* has nothing for the pair and today - 30 <= date <= today, never for a date
\* after today; the transcript is consulted only after the bulk result had
\* nothing and, for a date in that window, the single lookup had nothing either.
C6_SingleLookupInTrailingWindow ==
    /\ finnhub_call.kind = "single" =>
          /\ CacheKey(finnhub_call.symbol, finnhub_call.earnings_date)
                 \notin DOMAIN finnhub_times
          /\ today - FinnhubDays <= finnhub_call.earnings_date
          /\ finnhub_call.earnings_date <= today
    /\ (pc \in { "resolve", "emit" } /\ via = "transcript") =>
          LET d == CurrentEvent.earnings_date
              key == CacheKey(CurrentEvent.symbol, d)
          IN  /\ key \notin DOMAIN finnhub_times
              /\ (today - FinnhubDays <= d /\ d <= today) =>
                     /\ key \in DOMAIN earnings_time_cache
                     /\ earnings_time_cache[key] = "None"

\* a single lookup went to the provider for a date after today
C6_LookupForFutureDate ==
    /\ finnhub_call.kind = "single"
    /\ finnhub_call.earnings_date > today

----------------------------------------------------------------------------
(* Properties of run_backtest's list *)

EventKey(e) == CacheKey(e.symbol, e.earnings_date)

Distinct(list) ==
    \A j, k \in 1..Len(list) : j # k => EventKey(list[j]) # EventKey(list[k])

\* C7: no two records of one run_backtest call share (symbol, earnings_date),
\* whatever the calendar returned, repeated (symbol, date) rows included; of
\* repeated rows the loop processes the first (the one of least epsActual, which
\* numbers the rows of the response).
C7_OneRecordPerEvent ==
    op = "run" =>
        /\ Distinct(results)
        /\ Distinct(returned)
        /\ Distinct(filtered_events)
        /\ pc = "profiles" =>
              \A k \in 1..Len(filtered_events) :
                 /\ \E j \in 1..Len(earnings_events) : earnings_events[j] = filtered_events[k]
                 /\ \A j \in 1..Len(earnings_events) :
                       EventKey(earnings_events[j]) = EventKey(filtered_events[k]) =>
                           filtered_events[k].eps_actual <= earnings_events[j].eps_actual

\* the calendar repeated a (symbol, date) and the loop is left with its first row
C7_RepeatedRowDropped ==
    /\ op = "run"
    /\ pc = "profiles"
    /\ Len(earnings_events) >= 2
    /\ EventKey(earnings_events[1]) = EventKey(earnings_events[2])
    /\ earnings_events[1] # earnings_events[2]
    /\ filtered_events = << earnings_events[1] >>

\* where the record's event stands among the events in the order encountered
Position(r) == CHOOSE k \in 1..Len(filtered_events) : EventKey(filtered_events[k]) = EventKey(r)

\* C8: the list run_backtest returns is ordered by |price_change_pct|, largest
\* first, and records of equal |price_change_pct| stand in the order in which
\* their events were encountered.
C8_SortedByAbsoluteChange ==
    (op = "run" /\ outcome = "list") =>
        \A j, k \in 1..Len(returned) :
           j < k =>
              /\ Abs(returned[j].price_change_pct) >= Abs(returned[k].price_change_pct)
              /\ Abs(returned[j].price_change_pct) = Abs(returned[k].price_change_pct) =>
                     Position(returned[j]) < Position(returned[k])

\* run_backtest returned two records of equal |price_change_pct|
C8_TieReturned ==
    /\ op = "run"
    /\ outcome = "list"
    /\ Len(returned) = 2
    /\ Abs(returned[1].price_change_pct) = Abs(returned[2].price_change_pct)

\* C9: every record of run_backtest has |price_change_pct| >= the threshold
\* (0.10) and market_cap >= min_market_cap, with or without the screener's set.
C9_ThresholdAndMarketCap ==
    op = "run" =>
        \A r \in Records :
           /\ Abs(r.price_change_pct) >= PriceChangeThreshold
           /\ r.market_cap >= request.min_market_cap

\* without a screener set run_backtest returned a record exactly on the threshold
\* and exactly on the market cap
C9_OnBothLimitsWithoutScreener ==
    /\ op = "run"
    /\ outcome = "list"
    /\ large_cap_cache = << >>
    /\ \E k \in 1..Len(returned) :
          /\ returned[k].price_change_pct = -PriceChangeThreshold
          /\ returned[k].market_cap = request.min_market_cap

----------------------------------------------------------------------------
(* The change of a record *)

\* the record carries the date and the close of a bar of the source on each side
OwnBars(r, bars) ==
    /\ [date |-> r.date_before, close |-> r.price_before] \in bars
    /\ [date |-> r.date_after, close |-> r.price_after] \in bars

\* price_change_pct (in 1/10000) is a multiple nearest to (after - before) / before
NearestToQuotient(r) ==
    /\ r.price_before > 0
    /\ 2 * Abs(r.price_change_pct * r.price_before
                 - PctScale * (r.price_after - r.price_before)) <= r.price_before

\* C10: in every record of run_backtest, get_single_stock_backtest and
\* search_stock_earnings price_change_pct is (price_after - price_before) /
\* price_before rounded to 4 decimals, price_before and price_after being the
\* closes of the record's own before and after bars: so for the record a loop
\* appends, for the record get_single_stock_backtest returns, and the list a
\* loop's handler returns holds the records appended and no other.
C10_ChangeOfOwnBars ==
    [][ /\ (pc = "emit" /\ results' # results) =>
              LET r == results'[Len(results')]
              IN  /\ results' = Append(results, r)
                  /\ OwnBars(r, market)
                  /\ NearestToQuotient(r)
        /\ (pc = "idle" /\ outcome' = "record") =>
              /\ Len(returned') = 1
              /\ OwnBars(returned'[1], market')
              /\ NearestToQuotient(returned'[1])
        /\ (pc = "loop" /\ pc' = "done") =>
              /\ Len(returned') = Len(results)
              /\ { returned'[k] : k \in 1..Len(returned') }
                    = { results[k] : k \in 1..Len(results) } ]_vars

\* search_stock_earnings returned the record of 32 -> 33: 1/32 = 0.03125 lies
\* halfway and is rounded to 0.0312
C10_HalfwayRounded ==
    /\ op = "search"
    /\ outcome = "list"
    /\ Len(returned) = 1
    /\ returned[1].price_before = 32
    /\ returned[1].price_after = 33
    /\ returned[1].price_change_pct = 312

----------------------------------------------------------------------------
(* Properties of the hour codes *)

\* the single lookup found the event's row
RowFound == finnhub_call.kind = "single" /\ finnhub_call.found

\* what the single lookup stored for the row's event
StoredTime ==
    earnings_time_cache[CacheKey(finnhub_call.symbol, finnhub_call.earnings_date)]

\* C11 as stated: exactly "bmo" gives BMO and exactly "amc" gives AMC; every
\* other code ("dmh", "", a missing value, any other string) gives None.
C11_ExactCodes ==
    RowFound =>
        StoredTime = IF finnhub_call.hour = "bmo" THEN "BMO"
                     ELSE IF finnhub_call.hour = "amc" THEN "AMC"
                     ELSE "None"

BmoSpellings == { "bmo", "bmO", "bMo", "bMO", "Bmo", "BmO", "BMo", "BMO" }
AmcSpellings == { "amc", "amC", "aMc", "aMC", "Amc", "AmC", "AMc", "AMC" }

\* C11: "bmo" in any mix of upper and lower case gives BMO, "amc" in any mix
\* gives AMC; every other code ("dmh", "", a missing value, any other string)
\* gives None.
C11_CodesInAnyCase ==
    RowFound =>
        StoredTime = IF finnhub_call.hour \in BmoSpellings THEN "BMO"
                     ELSE IF finnhub_call.hour \in AmcSpellings THEN "AMC"
                     ELSE "None"

\* the provider's row said "Bmo" and the lookup stored BMO
C11_MixedCaseMapped ==
    /\ RowFound
    /\ finnhub_call.hour = "Bmo"
    /\ StoredTime = "BMO"

----------------------------------------------------------------------------
(* Properties of the strict resolution *)

\* run_backtest has applied _determine_prices to the event at hand
StrictlyResolved == op = "run" /\ pc = "emit"

\* the source's bars on the days d + 1 .. d + 5 and d - 5 .. d - 1
LaterBars(d) == { b \in market : d + 1 <= b.date /\ b.date <= d + LookDays }
PriorBars(d) == { b \in market : d - LookDays <= b.date /\ b.date <= d - 1 }
DayBars(d) == { b \in market : b.date = d }

\* C12: _determine_prices with no timing (None) returns (None, None, None) for
\* every event date and every set of bars.
C12_UnknownTimingUnresolved ==
    (StrictlyResolved /\ earnings_time_value = "None") => resolved = NoneTriple

\* no timing, bars on the day before, the day and the day after: unresolved
C12_UnknownWithAllBars ==
    /\ StrictlyResolved
    /\ earnings_time_value = "None"
    /\ PriorBars(CurrentEvent.earnings_date) # {}
    /\ DayBars(CurrentEvent.earnings_date) # {}
    /\ LaterBars(CurrentEvent.earnings_date) # {}
    /\ resolved = NoneTriple

\* C13: when the event date has a bar and a bar lies within the 5 days before
\* it, BMO gives (BMO, the nearest bar before, the date's bar); AMC gives (AMC,
\* the date's bar, the nearest bar within the 5 days after) when there is one
\* and (None, None, None) when there is none.
C13_BeforeOpenAndAfterClose ==
    LET d == CurrentEvent.earnings_date
    IN  (StrictlyResolved /\ DayBars(d) # {} /\ PriorBars(d) # {}) =>
            /\ earnings_time_value = "BMO" =>
                  /\ resolved.earnings_time = "BMO"
                  /\ resolved.price_before \in PriorBars(d)
                  /\ \A b \in PriorBars(d) : b.date <= resolved.price_before.date
                  /\ resolved.price_after \in DayBars(d)
            /\ (earnings_time_value = "AMC" /\ LaterBars(d) # {}) =>
                  /\ resolved.earnings_time = "AMC"
                  /\ resolved.price_before \in DayBars(d)
                  /\ resolved.price_after \in LaterBars(d)
                  /\ \A b \in LaterBars(d) : resolved.price_after.date <= b.date
            /\ (earnings_time_value = "AMC" /\ LaterBars(d) = {}) =>
                  resolved = NoneTriple

\* BMO with the nearest prior bar 5 days back, other bars further back still
C13_BeforeOpenFromFiveDaysBack ==
    /\ StrictlyResolved
    /\ earnings_time_value = "BMO"
    /\ resolved.earnings_time = "BMO"
    /\ resolved.price_before.date = CurrentEvent.earnings_date - LookDays
    /\ resolved.price_after.date = CurrentEvent.earnings_date
    /\ BarsUpTo(CurrentEvent.earnings_date - LookDays - 1) # {}

----------------------------------------------------------------------------
(* Failing upstream calls in run_backtest *)

InLoop == pc = "loop" \/ InIteration

SameRecords(a, b) ==
    /\ Len(a) = Len(b)
    /\ { a[k] : k \in 1..Len(a) } = { b[k] : k \in 1..Len(b) }

\* C14: run_backtest never raises whichever upstream calls fail: an empty (or
\* failed) calendar returns the empty list at once; each step of the loop goes
\* on with the same event or the next one and changes the results by at most
\* one record of the event at hand, so a failure drops that event alone; the
\* end of the loop returns, as a list, every record gathered.
C14_FailuresDropOneEvent ==
    [][ (op' = "run") =>
          /\ outcome' # "raised"
          /\ (pc = "calendar" /\ earnings_events' = << >>) =>
                (pc' = "done" /\ outcome' = "list" /\ returned' = << >>)
          /\ (InLoop /\ pc' # "done") =>
                /\ i' \in { i, i + 1 }
                /\ InLoop'
                /\ \/ results' = results
                   \/ /\ Len(results') = Len(results) + 1
                      /\ SubSeq(results', 1, Len(results)) = results
                      /\ EventKey(results'[Len(results')]) = EventKey(CurrentEvent)
          /\ (InLoop /\ pc' = "done") =>
                /\ i > Len(filtered_events)
                /\ outcome' = "list"
                /\ SameRecords(returned', results) ]_vars

\* the screener failed, the first of two events gave no record, the second
\* event's record is returned
C14_SecondEventSurvives ==
    /\ op = "run"
    /\ pc = "done"
    /\ outcome = "list"
    /\ large_cap_cache = << >>
    /\ Len(filtered_events) = 2
    /\ Len(returned) = 1
    /\ EventKey(returned[1]) = EventKey(filtered_events[2])

----------------------------------------------------------------------------
(* Not found in get_single_stock_backtest *)

\* the bars the single lookup may use: on the date or in the HistoricalDays
\* before it, and from the next day to HistoricalDays past the next day
UsableBefore(d) == { b \in market : d - HistoricalDays <= b.date /\ b.date <= d }
UsableAfter(d) == { b \in market : d + 1 <= b.date /\ b.date <= d + 1 + HistoricalDays }

\* C15: get_single_stock_backtest that does not raise returns None (404 in the
\* router) whenever the price source has no usable before bar or no usable
\* after bar, and a record only when both exist (with the profile).
C15_NotFoundWithoutBars ==
    (op = "single" /\ pc = "done" /\ outcome # "raised") =>
        LET d == request.earnings_date
        IN  /\ (UsableBefore(d) = {} \/ UsableAfter(d) = {}) =>
                  (outcome = "none" /\ returned = << >>)
            /\ outcome = "record" =>
                  (Len(returned) = 1 /\ UsableBefore(d) # {} /\ UsableAfter(d) # {})

\* a record although no bar lies after the date: its after bar is a bar of an
\* earlier day
C15_RecordWithoutAfterBar ==
    /\ op = "single"
    /\ outcome = "record"
    /\ UsableAfter(request.earnings_date) = {}
    /\ returned[1].date_after < request.earnings_date

----------------------------------------------------------------------------
(* Records of search_stock_earnings *)

\* the event at hand has a bar on its date or in the LookDays before it, and a
\* bar in the LookDays after it
Resolvable(d) == (DayBars(d) \cup PriorBars(d)) # {} /\ LaterBars(d) # {}

\* C16: search_stock_earnings appends a record for the event at hand exactly
\* when the event (of at least 2 bars) has a bar on its date or within the 5
\* days before and a bar within the 5 days after, whatever the timing verdict
\* (None included) and however small the change; it drops the event only then
\* when _determine_prices_fallback gives no pair either.
C16_SearchKeepsResolvable ==
    [][ (op = "search" /\ pc = "emit") =>
          LET d == CurrentEvent.earnings_date
              kept == /\ Len(results') = Len(results) + 1
                      /\ SubSeq(results', 1, Len(results)) = results
                      /\ EventKey(results'[Len(results')]) = EventKey(CurrentEvent)
          IN  /\ Len(prices) >= 2
              /\ Resolvable(d) => kept
              /\ ~kept => (results' = results /\ ~Resolvable(d)
                           /\ Unresolved(DeterminePricesFallback(d, prices))) ]_vars

\* a search record with no timing and a change under the run's threshold
C16_SmallChangeUnknownTiming ==
    /\ op = "search"
    /\ pc = "done"
    /\ Len(returned) = 1
    /\ returned[1].earnings_time = "None"
    /\ Abs(returned[1].price_change_pct) < PriceChangeThreshold

----------------------------------------------------------------------------
(* FMPService.get_large_cap_symbols_set, called by overlapping requests *)

\* the thresholds asked about
MinCaps == { 5, 10 }

\* the caller has no call under way
Free(c) == IF c \in DOMAIN callers THEN callers[c].at = "returned" ELSE TRUE

InitCaches == Init(Orchestration)

\* a request (with its own FMPService) calls get_large_cap_symbols_set:
\* `if min_market_cap in self._large_cap_cache: return ...`, else the screener
\* request is sent and awaited
CheckLargeCapCache ==
    /\ \E c \in 1..MaxCallers, cap \in MinCaps :
          /\ Free(c)
          /\ callers' =
                 Put(callers, c,
                     IF cap \in DOMAIN large_cap_cache
                     THEN [at |-> "returned", min_market_cap |-> cap,
                           symbols |-> large_cap_cache[cap], how |-> "cached"]
                     ELSE [at |-> "screening", min_market_cap |-> cap,
                           symbols |-> {}, how |-> "none"])
    /\ UNCHANGED Apart
    /\ UNCHANGED << today, pc, op, request, earnings_events, filtered_events,
                    all_profiles, finnhub_times, i, IterationVars, results, returned,
                    outcome, large_cap_cache, earnings_time_cache, finnhub_call, lookups >>

\* the screener answers: self._large_cap_cache[min_market_cap] = symbols
ScreenerAnswers ==
    /\ \E c \in DOMAIN callers, symbols \in Orchestration.screens :
          /\ callers[c].at = "screening"
          /\ large_cap_cache' = Put(large_cap_cache, callers[c].min_market_cap, symbols)
          /\ callers' = [callers EXCEPT ![c].at = "returned", ![c].symbols = symbols,
                                        ![c].how = "screened"]
    /\ UNCHANGED Apart
    /\ UNCHANGED << today, pc, op, request, earnings_events, filtered_events,
                    all_profiles, finnhub_times, i, IterationVars, results, returned,
                    outcome, earnings_time_cache, finnhub_call, lookups >>

\* an `except` that caches the empty set it returns
ScreenerFailsStoringEmpty ==
    /\ \E c \in DOMAIN callers :
          /\ callers[c].at = "screening"
          /\ large_cap_cache' = Put(large_cap_cache, callers[c].min_market_cap, {})
          /\ callers' = [callers EXCEPT ![c].at = "returned", ![c].symbols = {},
                                        ![c].how = "failed"]
    /\ UNCHANGED Apart
    /\ UNCHANGED << today, pc, op, request, earnings_events, filtered_events,
                    all_profiles, finnhub_times, i, IterationVars, results, returned,
                    outcome, earnings_time_cache, finnhub_call, lookups >>

\* the screener request raises: `except Exception: pass`, the empty set is returned
ScreenerFails ==
    /\ \E c \in DOMAIN callers :
          /\ callers[c].at = "screening"
          /\ callers' = [callers EXCEPT ![c].at = "returned", ![c].symbols = {},
                                        ![c].how = "failed"]
    /\ UNCHANGED Apart
    /\ UNCHANGED << today, pc, op, request, earnings_events, filtered_events,
                    all_profiles, finnhub_times, i, IterationVars, results, returned,
                    outcome, large_cap_cache, earnings_time_cache, finnhub_call, lookups >>

NextCaches == CheckLargeCapCache \/ ScreenerAnswers \/ ScreenerFails
SpecCaches == InitCaches /\ [][NextCaches]_vars

----------------------------------------------------------------------------
(* run_backtest called twice over the same upstream data *)

\* bars on the day before (11), the day and the day after (9 or 10)
TradedSeries == { s \in Orchestration.series : s[0] # 0 /\ s[1] # 0 }

\* One state of the upstream services: the calendar's rows, the calls that
\* fail, the screener's set, the bars of each symbol. The timing provider knows
\* "amc", both transcripts say BMO.
Worlds ==
    { [todays |-> Orchestration.todays,
       requests |-> Orchestration.requests,
       searches |-> Orchestration.searches,
       singles |-> Orchestration.singles,
       tickers |-> Orchestration.tickers,
       eventDays |-> Orchestration.eventDays,
       historyDays |-> Orchestration.historyDays,
       maxEvents |-> Orchestration.maxEvents,
       screens |-> { screen },
       profiles |-> { ProfileOf(10) },
       hours |-> { "amc" },
       transcripts |-> { "BMO" },
       series |-> TradedSeries,
       orders |-> Orchestration.orders,
       calendar |-> calendar,
       fails |-> fails,
       series_of |-> series_of] :
         screen \in Orchestration.screens,
         fails \in SUBSET { "screener", "bulk", "single" },
         series_of \in [Orchestration.tickers -> TradedSeries],
         calendar \in { rows \in CalendarResponses(Orchestration,
                                                    CHOOSE r \in Orchestration.requests : TRUE) :
                           Len(rows) = Orchestration.maxEvents } }

InitTwice ==
    /\ upstream \in Worlds
    /\ Construction(upstream)
    /\ first_call = NoFirstCall
    /\ response = NoResponse
    /\ history = << >>
    /\ transcript_call = NoTranscriptCall

\* The first request is answered; a second request arrives: a new
\* BacktestService with a new FinnhubService, and FMPService._large_cap_cache
\* as the first request left it
SecondRequest ==
    /\ pc = "done"
    /\ op = "run"
    /\ first_call = NoFirstCall
    /\ first_call' = [outcome |-> outcome, returned |-> returned]
    /\ pc' = "idle"
    /\ op' = "none"
    /\ request' = NoRequest
    /\ earnings_events' = << >>
    /\ filtered_events' = << >>
    /\ all_profiles' = << >>
    /\ finnhub_times' = << >>
    /\ i' = 0
    /\ ClearIteration
    /\ results' = << >>
    /\ returned' = << >>
    /\ outcome' = "pending"
    /\ earnings_time_cache' = << >>
    /\ finnhub_call' = NoCall
    /\ UNCHANGED << today, large_cap_cache, lookups, callers, upstream, response, history,
                    transcript_call >>

\* the handlers other than run_backtest are left out: the Engine's actions that
\* a run_backtest request goes through
RunBacktest(D) ==
    \/ StartRunBacktest(D)
    \/ FetchCalendar(D)
    \/ FetchLargeCap(D)
    \/ BatchProfiles(D)
    \/ Prewarm(D)
    \/ EventPrices(D)
    \/ TimingBulk
    \/ SingleLookup(D)
    \/ Transcript(D)
    \/ Resolve
    \/ Emit
    \/ Finish

NextTwice == RunBacktest(upstream) \/ SecondRequest
SpecTwice == InitTwice /\ [][NextTwice]_vars

----------------------------------------------------------------------------
(* The router's search_stock_earnings: the service call, the save, the answer *)

\* a handler that lets a raising save through
SearchAnswerUnlessSaveRaised(list, save) ==
    IF save = "raised"
    THEN [status |-> "error", body |-> << >>, save |-> save]
    ELSE [status |-> "ok", body |-> list, save |-> save]

\* `return results`, after the try / except around the save
SearchAnswer(list, save) == [status |-> "ok", body |-> list, save |-> save]

\* `if results:` MinioService() and save_query_result("stock", params,
\* results_dict): the object is stored, or put_object fails with an S3Error
\* (None is returned), or something else raises into the router's except
SaveQueryResult ==
    /\ op = "search"
    /\ pc = "done"
    /\ outcome = "list"
    /\ returned # << >>
    /\ response = NoResponse
    /\ \E save \in { "saved", "failed", "raised" } :
          /\ response' = [response EXCEPT !.save = save]
          /\ history' =
                 IF save = "saved"
                 THEN Append(history, [query_type |-> "stock",
                                       symbol |-> request.symbol,
                                       start_date |-> request.start_date,
                                       end_date |-> request.end_date,
                                       results |-> returned,
                                       count |-> Len(returned)])
                 ELSE history
    /\ UNCHANGED << today, pc, op, request, earnings_events, filtered_events,
                    all_profiles, finnhub_times, i, IterationVars, results, returned,
                    outcome, large_cap_cache, earnings_time_cache, finnhub_call,
                    lookups, callers, upstream, first_call, transcript_call >>

\* the handler ends: with the list, or with what the service raised
Respond ==
    /\ op = "search"
    /\ pc = "done"
    /\ response.status = "pending"
    /\ IF outcome = "raised"
       THEN response' = [status |-> "error", body |-> << >>, save |-> "none"]
       ELSE /\ returned # << >> => response.save # "none"
            /\ response' = SearchAnswer(returned, response.save)
    /\ UNCHANGED << today, pc, op, request, earnings_events, filtered_events,
                    all_profiles, finnhub_times, i, IterationVars, results, returned,
                    outcome, large_cap_cache, earnings_time_cache, finnhub_call,
                    lookups, callers, upstream, first_call, history, transcript_call >>

NextRouter == Engine(Pricing) \/ SaveQueryResult \/ Respond
SpecRouter == Init(Pricing) /\ [][NextRouter]_vars

----------------------------------------------------------------------------
(* The pool of batch_get_profiles *)

AllPerformed == \A s \in DOMAIN lookups : lookups[s].at = "done"

\* C17: in batch_get_profiles at most 10 lookups are in flight at any moment;
\* a lookup starts only while fewer than 10 are in flight; the batch returns
\* only after every symbol's lookup was performed, and it does return.
C17_AtMostTenInFlight ==
    /\ [](Cardinality(InFlight) <= PoolSize)
    /\ []((op = "batch" /\ pc = "done") => AllPerformed)
    /\ [][ \A s \in DOMAIN lookups :
             (lookups[s].at = "waiting" /\ lookups'[s].at = "running") =>
                 Cardinality(InFlight) < PoolSize ]_vars
    /\ <>(op = "batch" /\ pc = "done" /\ AllPerformed)

\* the pool is full and a further lookup waits
C17_PoolFullOneWaits ==
    /\ op = "batch"
    /\ Cardinality(InFlight) = PoolSize
    /\ \E s \in DOMAIN lookups : lookups[s].at = "waiting"

\* C18: batch_get_profiles never raises; the map it returns holds exactly the
\* symbols whose lookup succeeded with a profile, with that profile, whatever
\* the order the lookups ended in.
C18_PartialMap ==
    (op = "batch" /\ pc = "done") =>
        /\ outcome = "profiles"
        /\ DOMAIN all_profiles =
               { s \in DOMAIN lookups : lookups[s].answer.status = "ok" }
        /\ \A s \in DOMAIN all_profiles :
               all_profiles[s].market_cap = lookups[s].answer.market_cap

\* more symbols than the pool holds; one lookup failed, one found nothing, the
\* others are in the map
C18_FailedAndMissingOmitted ==
    /\ op = "batch"
    /\ pc = "done"
    /\ Cardinality(DOMAIN lookups) > PoolSize
    /\ lookups[<< "A" >>].answer.status = "fail"
    /\ lookups[<< "B" >>].answer.status = "none"
    /\ DOMAIN all_profiles = (DOMAIN lookups) \ { << "A" >>, << "B" >> }

----------------------------------------------------------------------------
(* The caches *)

\* the step is a step of c's call
Moves(c) == IF c \in DOMAIN callers THEN callers'[c] # callers[c] ELSE TRUE

\* every entry the map holds before the step is there, unchanged, after it
EntriesKept(before, after) ==
    \A k \in DOMAIN before : k \in DOMAIN after /\ after[k] = before[k]

\* C19: get_large_cap_symbols_set is memoized per min_market_cap: a call for a
\* cached threshold returns the cached set without a screener request; no step
\* alters the entry of a threshold other than the call's own, and an entry once
\* stored stays, so that every later call returns the same set; a failed
\* screener request returns the empty set and stores nothing.
C19_MemoizedPerThreshold ==
    [][ /\ \A c \in DOMAIN callers' :
             Moves(c) =>
                 LET cap == callers'[c].min_market_cap
                 IN  /\ \A k \in (DOMAIN large_cap_cache) \ { cap } :
                          k \in DOMAIN large_cap_cache'
                          /\ large_cap_cache'[k] = large_cap_cache[k]
                     /\ (DOMAIN large_cap_cache') \subseteq (DOMAIN large_cap_cache) \cup { cap }
                     /\ (callers'[c].at = "screening") => cap \notin DOMAIN large_cap_cache
                     /\ (callers'[c].how = "cached") =>
                          /\ cap \in DOMAIN large_cap_cache
                          /\ callers'[c].symbols = large_cap_cache[cap]
                          /\ large_cap_cache' = large_cap_cache
                     /\ (callers'[c].how = "failed") =>
                          /\ callers'[c].symbols = {}
                          /\ large_cap_cache' = large_cap_cache
                     /\ (callers'[c].how = "screened") =>
                          /\ cap \in DOMAIN large_cap_cache'
                          /\ large_cap_cache'[cap] = callers'[c].symbols
        /\ EntriesKept(large_cap_cache, large_cap_cache') ]_vars

\* one call got a set from the screener and stored it; a call for the same
\* threshold that found the entry cached returned another set
C19_LaterCallAnotherSet ==
    \E c, d \in DOMAIN callers :
        /\ callers[c].how = "screened"
        /\ callers[d].how = "cached"
        /\ callers[c].min_market_cap = callers[d].min_market_cap
        /\ callers[c].symbols # callers[d].symbols

\* C20: in the timing cache and in the large-cap cache every write under a key
\* that is already there stores the value that is there.
C20_WritesAgree ==
    [][ /\ EntriesKept(earnings_time_cache, earnings_time_cache')
        /\ EntriesKept(large_cap_cache, large_cap_cache') ]_vars

\* two overlapping calls for one threshold both asked the screener, got
\* different sets and both stored theirs
C20_TwoWritersDisagree ==
    \E c, d \in DOMAIN callers :
        /\ callers[c].how = "screened"
        /\ callers[d].how = "screened"
        /\ callers[c].min_market_cap = callers[d].min_market_cap
        /\ callers[c].symbols # callers[d].symbols
        /\ large_cap_cache[callers[d].min_market_cap] = callers[d].symbols

----------------------------------------------------------------------------
(* The same request twice *)

SecondDone == first_call # NoFirstCall /\ op = "run" /\ pc = "done"

\* C21: a second run_backtest with the same arguments, the same today and the
\* same upstream answers returns the list the first one returned, record by
\* record in the same order, whether or not the first call left an entry in
\* the large-cap cache.
C21_SameListAgain ==
    SecondDone => (outcome = first_call.outcome /\ returned = first_call.returned)

\* the second call found the screener's set cached and returned the two
\* records of the first call
C21_SecondCallFromCache ==
    /\ SecondDone
    /\ request.min_market_cap \in DOMAIN large_cap_cache
    /\ large_cap_cache[request.min_market_cap] # {}
    /\ Len(returned) = 2
    /\ returned[1].symbol # returned[2].symbol
    /\ returned = first_call.returned

----------------------------------------------------------------------------
(* The save after the search *)

\* C22: whatever the save does (stored, failed, raised), the router answers
\* the stock search with exactly the list search_stock_earnings returned; the
\* save is attempted only once that list is returned, stores that list, and
\* changes nothing of it.
C22_SaveLeavesTheAnswer ==
    /\ [](response.save # "none" =>
             (op = "search" /\ pc = "done" /\ outcome = "list" /\ returned # << >>))
    /\ []((response.status # "pending" /\ outcome = "list") =>
             (response.status = "ok" /\ response.body = returned))
    /\ []((response.status # "pending" /\ returned # << >>) => response.save # "none")
    /\ [](\A k \in 1..Len(history) : history[k].results = returned)
    /\ [][ response' # response => (returned' = returned /\ outcome' = outcome) ]_vars

\* the save raised and the caller has the record all the same
C22_AnsweredAfterRaisingSave ==
    /\ response.status = "ok"
    /\ response.save = "raised"
    /\ Len(response.body) = 1
    /\ response.body = returned
    /\ history = << >>
    /\ transcript_call = NoTranscriptCall

----------------------------------------------------------------------------
(* run_backtest over calendars of listed and depositary tickers *)

BABAF == << "B", "A", "B", "A", "F" >>
SKY == << "S", "K", "Y" >>
FORD == << "F" >>
TADR == << "T", "A", "D", "R" >>
ADS == << "A", "D", "S" >>
CITY == << "C", "I", "T", "Y" >>
AB1F == << "A", "B", "1", "F" >>
GF == << "G", "F" >>

CalendarTickers ==
    { AAPL, BRKB, TCEHY, BABAF, SKY, FORD, TADR, ADS, CITY, AB1F, GF }

\* the calendar's response: 1..MaxRows rows dated Day0, any tickers
CalendarRows ==
    UNION { { [k \in 1..n |-> [symbol |-> f[k], earnings_date |-> Day0,
                               eps_actual |-> k]] : f \in [1..n -> CalendarTickers] }
            : n \in 1..MaxRows }

\* Upstream services where every ticker is large and closes at 11, 9 and 10 on
\* the day before, the day and the day after; the timing provider answers
\* "amc", or fails and the transcript says BMO
ListedWorlds ==
    { [todays |-> Orchestration.todays,
       requests |-> Orchestration.requests,
       searches |-> Orchestration.searches,
       singles |-> Orchestration.singles,
       tickers |-> CalendarTickers,
       eventDays |-> { Day0 },
       historyDays |-> Orchestration.historyDays,
       maxEvents |-> MaxRows,
       screens |-> { CalendarTickers },
       profiles |-> { ProfileOf(10) },
       hours |-> { "amc" },
       transcripts |-> { "BMO" },
       series |-> TradedSeries,
       orders |-> Orchestration.orders,
       calendar |-> calendar,
       fails |-> fails,
       series_of |-> [symbol \in CalendarTickers |->
                         [o \in (-1)..1 |-> IF o = -1 THEN 11 ELSE 9 + o]]] :
         calendar \in CalendarRows,
         fails \in { {}, { "bulk", "single" } } }

InitFilter ==
    /\ upstream \in ListedWorlds
    /\ Construction(upstream)
    /\ first_call = NoFirstCall
    /\ response = NoResponse
    /\ history = << >>
    /\ transcript_call = NoTranscriptCall

NextFilter == RunBacktest(upstream)
SpecFilter == InitFilter /\ [][NextFilter]_vars

\* the three conditions, on the ticker's characters
Chars(symbol) == { symbol[k] : k \in 1..Len(symbol) }
Ending(symbol, n) == SubSeq(symbol, Len(symbol) - n + 1, Len(symbol))
DepositaryLooking(symbol) ==
    \/ "." \in Chars(symbol)
    \/ \E n \in 1..Len(symbol) : Ending(symbol, n) \in AdrSuffixes
    \/ /\ Len(symbol) > 3
       /\ Ending(symbol, 1) \in { << "Y" >>, << "F" >> }
       /\ Chars(SubSeq(symbol, 1, Len(symbol) - 1)) \subseteq Letters

\* get_earnings_calendar has returned
CalendarFetched == op = "run" /\ pc \in { "screener", "profiles" }

Symbols(list) == { list[k].symbol : k \in DOMAIN list }

\* C24: get_earnings_calendar drops a row if and only if its ticker contains
\* ".", ends in one of the depositary-receipt suffixes, or is longer than 3
\* characters, ends in Y or F and is alphabetic before that; BRK.B and TCEHY
\* are dropped, and no record of run_backtest carries such a ticker.
C24_FilterDropsExactlyDepositary ==
    /\ CalendarFetched =>
          /\ earnings_events =
                SelectSeq(upstream.calendar,
                          LAMBDA row : ~DepositaryLooking(row.symbol))
          /\ \A k \in DOMAIN earnings_events :
                earnings_events[k].symbol \notin { BRKB, TCEHY }
    /\ \A symbol \in Symbols(results) \cup Symbols(returned) :
          ~DepositaryLooking(symbol)
    /\ (op = "run" /\ pc = "done") =>
          Symbols(returned) =
              { symbol \in Symbols(upstream.calendar) : ~DepositaryLooking(symbol) }

\* the calendar listed BRK.B and SKY; the run returned one record, for SKY
C24_DottedDroppedShortKept ==
    /\ op = "run"
    /\ pc = "done"
    /\ upstream.calendar[1].symbol = BRKB
    /\ Len(upstream.calendar) > 1
    /\ upstream.calendar[2].symbol = SKY
    /\ Len(returned) = 1
    /\ returned[1].symbol = SKY

----------------------------------------------------------------------------
(* The ranges sent to the timing provider *)

\* _get_finnhub_earnings_times has just returned
Prewarmed == pc = "loop" /\ i = 1

\* the days the provider holds
Trailing == (today - FinnhubDays)..today

\* the days of the calendar request of the latest step
AskedDays ==
    IF finnhub_call.kind = "none" THEN {}
    ELSE finnhub_call.from_date..finnhub_call.to_date

\* C23: _get_finnhub_earnings_times asks the provider about exactly the days
\* of [start_date, end_date] that lie in [today - 30, today], makes no call and
\* returns the empty map when there are none, and every value of the map it
\* returns is BMO or AMC.
C23_BulkAsksTheIntersection ==
    /\ Prewarmed =>
          LET wanted == (request.start_date..request.end_date) \cap Trailing
          IN  /\ AskedDays = wanted
              /\ wanted # {} => finnhub_call.kind = "bulk"
              /\ wanted = {} => (finnhub_call = NoCall /\ finnhub_times = << >>)
              /\ \A key \in DOMAIN finnhub_times : key[2] \in wanted
    /\ \A key \in DOMAIN finnhub_times : finnhub_times[key] \in { "BMO", "AMC" }

\* a range that starts before today - 30 was asked about from today - 30 on,
\* and the provider's row was classified
C23_RangeCutAtThirtyDays ==
    /\ Prewarmed
    /\ request.start_date < today - FinnhubDays
    /\ finnhub_call.kind = "bulk"
    /\ finnhub_call.from_date = today - FinnhubDays
    /\ finnhub_call.to_date = request.end_date
    /\ finnhub_times # << >>

\* C28: every calendar request sent to the timing provider, bulk or single,
\* covers only days of [today - 30, today].
C28_RequestsInsideTheWindow == AskedDays \subseteq Trailing

\* a single lookup for a date in the window asked about the day after today
C28_SingleLookupPastToday ==
    /\ finnhub_call.kind = "single"
    /\ finnhub_call.earnings_date \in Trailing
    /\ finnhub_call.to_date > today

----------------------------------------------------------------------------
(* FMPService.get_earnings_time_from_transcript, quarter by quarter *)

\* possible_quarters: << year, quarter >> pairs in the order they are tried
PossibleQuarters(year, month) ==
    IF month \in { 1, 2 } THEN << << year - 1, 4 >>, << year, 1 >> >>
    ELSE IF month \in { 4, 5 } THEN << << year, 1 >>, << year, 2 >> >>
    ELSE IF month \in { 7, 8 } THEN << << year, 2 >>, << year, 3 >> >>
    ELSE IF month \in { 10, 11 } THEN << << year, 3 >>, << year, 4 >> >>
    ELSE LET quarter == ((month - 1) \div 3) + 1
         IN  << << year, quarter >>,
                << year, IF quarter > 1 THEN quarter - 1 ELSE 4 >> >>

\* the hour test on the match of a time pattern
ClockVerdict(time) ==
    IF time.ampm = "am"
    THEN IF 6 <= time.hour /\ time.hour <= 9 THEN "BMO" ELSE "None"
    ELSE IF time.hour >= 12 \/ (1 <= time.hour /\ time.hour <= 8) THEN "AMC" ELSE "None"

\* re.search(pattern, search_content): the leftmost clock time, for the second
\* pattern the leftmost one that follows "at"
Matches(times, pattern) ==
    { k \in 1..Len(times) : pattern = 1 \/ times[k].at }

SearchTime(times, pattern) ==
    LET found == Matches(times, pattern)
    IN  IF found = {} THEN << >>
        ELSE << times[CHOOSE k \in found : \A other \in found : k <= other] >>

\* `for pattern in time_patterns`: the first pattern whose match passes the
\* hour test returns
TimePatterns(times) ==
    LET first == SearchTime(times, 1)
        second == SearchTime(times, 2)
    IN  IF first # << >> /\ ClockVerdict(first[1]) # "None" THEN ClockVerdict(first[1])
        ELSE IF second # << >> /\ ClockVerdict(second[1]) # "None"
        THEN ClockVerdict(second[1])
        ELSE "None"

\* a scan that looks at the clock times before the greetings
ScanContentClockFirst(content) ==
    IF TimePatterns(content.times) # "None" THEN TimePatterns(content.times)
    ELSE IF "good morning" \in content.early THEN "BMO"
    ELSE IF content.early # {} THEN "AMC"
    ELSE "None"

\* the scan of search_content = content[:2000]
ScanContent(content) ==
    IF "good morning" \in content.early THEN "BMO"
    ELSE IF "good afternoon" \in content.early \/ "good evening" \in content.early
    THEN "AMC"
    ELSE TimePatterns(content.times)

\* one pass of `for yr, qtr in possible_quarters`: the fetch raises ("fail"),
\* `not data` ("empty"), or data[0]'s content is scanned
ScanAnswer(answer) ==
    IF answer.status \in { "fail", "empty" } THEN "None" ELSE ScanContent(answer)

\* Clock times of a transcript's first 2000 characters
MorningTimes == { [hour |-> h, ampm |-> "am", at |-> at] : h \in { 5, 6, 9, 10, 12 },
                                                            at \in BOOLEAN }
EveningTimes == { [hour |-> h, ampm |-> "pm", at |-> at] : h \in { 1, 8, 9, 11, 12 },
                                                            at \in BOOLEAN }
ClockTimes == MorningTimes \cup EveningTimes

\* no clock time, one, or one not after "at" and a later one after "at"
ClockTexts ==
    { << >> } \cup { << time >> : time \in ClockTimes }
    \cup { << first, second >> : first \in { time \in ClockTimes : ~time.at },
                                 second \in { time \in ClockTimes : time.at } }

\* Transcript contents: `early` are the greetings said in the first 2000
\* characters, `late` those said only later, `times` the clock times of the
\* first 2000 characters in the order of the text
Contents ==
    { [status |-> "ok", early |-> early, late |-> {}, times |-> times] :
        early \in { { "good morning" }, { "good afternoon" }, { "good evening" },
                    { "good morning", "good afternoon" } },
        times \in { << >>, << [hour |-> 8, ampm |-> "pm", at |-> TRUE] >>,
                    << [hour |-> 6, ampm |-> "am", at |-> TRUE] >> } }
    \cup { [status |-> "ok", early |-> {}, late |-> late, times |-> times] :
             late \in { {}, { "good morning" } }, times \in ClockTexts }

\* a fetch that raises and a response without a transcript carry no content
NoContent(status) == [status |-> status, early |-> {}, late |-> {}, times |-> << >>]

TranscriptAnswers == { NoContent("fail"), NoContent("empty") } \cup Contents

\* get_earnings_time_from_transcript(symbol, earnings_date) is called for a
\* date of the given month
StartTranscript ==
    /\ transcript_call.at = "idle"
    /\ \E month \in 1..12 :
          transcript_call' =
              [NoTranscriptCall EXCEPT !.at = "fetch", !.month = month,
                                       !.possible_quarters = PossibleQuarters(2024, month)]
    /\ UNCHANGED << today, pc, op, request, earnings_events, filtered_events,
                    all_profiles, finnhub_times, i, IterationVars, results, returned,
                    outcome, large_cap_cache, earnings_time_cache, finnhub_call,
                    lookups, callers, upstream, first_call, response, history >>

\* one pass of the loop: self._get("earning-call-transcript", ...) and the scan
FetchTranscript ==
    /\ transcript_call.at = "fetch"
    /\ Len(transcript_call.asked) < Len(transcript_call.possible_quarters)
    /\ \E answer \in TranscriptAnswers :
          LET quarter ==
                  transcript_call.possible_quarters[Len(transcript_call.asked) + 1]
              verdict == ScanAnswer(answer)
          IN  transcript_call' =
                  [transcript_call EXCEPT
                      !.asked = Append(@, quarter),
                      !.heard = Append(@, answer),
                      !.verdicts = Append(@, verdict),
                      !.result = IF verdict = "None" THEN @ ELSE verdict,
                      !.at = IF verdict = "None" THEN @ ELSE "done"]
    /\ UNCHANGED << today, pc, op, request, earnings_events, filtered_events,
                    all_profiles, finnhub_times, i, IterationVars, results, returned,
                    outcome, large_cap_cache, earnings_time_cache, finnhub_call,
                    lookups, callers, upstream, first_call, response, history >>

\* `return None` after the loop
TranscriptNone ==
    /\ transcript_call.at = "fetch"
    /\ Len(transcript_call.asked) = Len(transcript_call.possible_quarters)
    /\ transcript_call' = [transcript_call EXCEPT !.result = "None", !.at = "done"]
    /\ UNCHANGED << today, pc, op, request, earnings_events, filtered_events,
                    all_profiles, finnhub_times, i, IterationVars, results, returned,
                    outcome, large_cap_cache, earnings_time_cache, finnhub_call,
                    lookups, callers, upstream, first_call, response, history >>

NextTranscript == StartTranscript \/ FetchTranscript \/ TranscriptNone
SpecTranscript == Init(Pricing) /\ [][NextTranscript]_vars

\* what the words of a transcript allow as its verdict
Greeted(answer) == answer.status = "ok" /\ answer.early # {}
Spoken(answer) == IF answer.status = "ok" THEN answer.times ELSE << >>
BeforeOpenHour(time) == time.ampm = "am" /\ time.hour \in 6..9
AfterCloseHour(time) == time.ampm = "pm" /\ (time.hour >= 12 \/ time.hour \in 1..8)

\* C25: get_earnings_time_from_transcript asks about at most the two candidate
\* quarters of the month, in order, and stops at the first transcript that
\* decides; in a transcript's first 2000 characters "good morning" gives BMO
\* and "good afternoon" / "good evening" give AMC, and only without a greeting
\* does a clock time decide (am and 6..9 gives BMO, pm and >= 12 or 1..8 gives
\* AMC); a fetch that fails, a missing transcript and a transcript that matches
\* nothing leave it to the next quarter, and the result is None when no quarter
\* decides: never an error.
C25_GreetingThenClockElseNone ==
    LET call == transcript_call
        n == Len(call.asked)
    IN  /\ n <= 2
        /\ call.asked = SubSeq(call.possible_quarters, 1, n)
        /\ call.month \in { 4, 5 } => call.possible_quarters = << << 2024, 1 >>, << 2024, 2 >> >>
        /\ call.month \in { 1, 2 } => call.possible_quarters = << << 2023, 4 >>, << 2024, 1 >> >>
        /\ \A k \in 1..(n - 1) : call.verdicts[k] = "None"
        /\ \A k \in 1..n :
              LET answer == call.heard[k]
                  verdict == call.verdicts[k]
                  times == Spoken(answer)
              IN  /\ answer.status \in { "fail", "empty" } => verdict = "None"
                  /\ Greeted(answer) =>
                        verdict = IF "good morning" \in answer.early THEN "BMO" ELSE "AMC"
                  /\ ~Greeted(answer) =>
                        /\ verdict = "BMO" => \E j \in DOMAIN times : BeforeOpenHour(times[j])
                        /\ verdict = "AMC" => \E j \in DOMAIN times : AfterCloseHour(times[j])
                        /\ (times # << >> /\ BeforeOpenHour(times[1])) => verdict = "BMO"
                        /\ (times # << >> /\ AfterCloseHour(times[1])) => verdict = "AMC"
                        /\ verdict = "None" =>
                              \A j \in DOMAIN times :
                                 times[j].at => ~(BeforeOpenHour(times[j]) \/ AfterCloseHour(times[j]))
        /\ call.result \in { "pending", "BMO", "AMC", "None" }
        /\ call.at = "done" =>
              /\ call.result # "pending"
              /\ call.result = "None" <=>
                    (n = 2 /\ \A k \in 1..n : call.verdicts[k] = "None")
              /\ call.result # "None" => call.result = call.verdicts[n]

\* the first quarter's fetch failed; the second quarter's transcript says
\* "good afternoon" and names 6 am: the result is AMC
C25_AfternoonBeatsSixAm ==
    /\ transcript_call.at = "done"
    /\ transcript_call.month = 5
    /\ transcript_call.heard[1].status = "fail"
    /\ Len(transcript_call.heard) = 2
    /\ transcript_call.heard[2].status = "ok"
    /\ transcript_call.heard[2].early = { "good afternoon" }
    /\ transcript_call.heard[2].times = << [hour |-> 6, ampm |-> "am", at |-> TRUE] >>
    /\ transcript_call.result = "AMC"

----------------------------------------------------------------------------
(* Event dates without a bar *)

\* run_backtest is about to judge an event whose date has no bar and is followed
\* by a bar within 5 days
NonTradingDate ==
    /\ StrictlyResolved
    /\ DayBars(CurrentEvent.earnings_date) = {}
    /\ LaterBars(CurrentEvent.earnings_date) # {}

\* C26: for an event date without a bar and with a bar within the 5 days after
\* it, _determine_prices returns (timing, nearest bar before or None, nearest bar
\* after) when the timing is BMO or AMC and (None, None, None) when it is
\* unknown; when there is no bar within the 5 days before either, run_backtest
\* appends no record for the event.
C26_NonTradingEventDate ==
    /\ [](NonTradingDate =>
            LET d == CurrentEvent.earnings_date
            IN  IF earnings_time_value \in { "BMO", "AMC" }
                THEN /\ resolved.earnings_time = earnings_time_value
                     /\ resolved.price_before =
                            IF PriorBars(d) = {} THEN NoPrice ELSE LatestBar(PriorBars(d))
                     /\ resolved.price_after = EarliestBar(LaterBars(d))
                ELSE resolved = NoneTriple)
    /\ [][(NonTradingDate /\ PriorBars(CurrentEvent.earnings_date) = {})
             => results' = results]_vars

\* an AMC event on a day without a bar, resolved to the bars two days before
\* and two days after
C26_AfterCloseAcrossTheGap ==
    /\ NonTradingDate
    /\ earnings_time_value = "AMC"
    /\ resolved.earnings_time = "AMC"
    /\ resolved.price_before.date = CurrentEvent.earnings_date - 2
    /\ resolved.price_after.date = CurrentEvent.earnings_date + 2

----------------------------------------------------------------------------
(* The neighbouring bars *)

\* a loop has resolved the event at hand: _determine_prices, and in
\* search_stock_earnings _determine_prices_fallback after it
WindowResolved == op \in { "run", "search" } /\ pc = "emit"

\* the bars of `resolved`
Selected == { resolved.price_before, resolved.price_after } \ { NoPrice }

\* what the resolver returns for the same bars supplied in the given order
ResolvedFrom(order) ==
    LET d == CurrentEvent.earnings_date
    IN  ResolveWindow(op, d,
                      Ordered(RangeBars(market, d - AroundDays, d + AroundDays), order),
                      earnings_time_value)

\* C27: in _determine_prices and _determine_prices_fallback the bar taken from
\* before the event date is the one at the smallest k in 1..5 with a bar on
\* date - k, the bar taken from after it the one at the smallest k in 1..5 with
\* a bar on date + k; no bar more than 5 days from the date is selected; the
\* result is the same whether the bars are supplied oldest or newest first.
C27_NearestWithinFiveDays ==
    WindowResolved =>
        LET d == CurrentEvent.earnings_date
        IN  /\ \A b \in Selected :
                  /\ b \in market
                  /\ Abs(b.date - d) <= LookDays
                  /\ b.date < d => b = LatestBar(PriorBars(d))
                  /\ b.date > d => b = EarliestBar(LaterBars(d))
            /\ \A order \in { "asc", "desc" } : ResolvedFrom(order) = resolved

\* bars 2, 5 and 6 days before and 5 and 6 days after the date, none on it,
\* supplied oldest first: the search took the bars 2 days before and 5 days after
C27_NearestOfSeveral ==
    /\ WindowResolved
    /\ op = "search"
    /\ Len(prices) > 1
    /\ prices[1].date < prices[2].date
    /\ { b.date - CurrentEvent.earnings_date : b \in market } =
           { -LookDays - 1, -LookDays, -2, LookDays, LookDays + 1 }
    /\ resolved.price_before.date = CurrentEvent.earnings_date - 2
    /\ resolved.price_after.date = CurrentEvent.earnings_date + LookDays

----------------------------------------------------------------------------
(* Failed screener requests *)

\* C29: a get_large_cap_symbols_set call whose screener request fails returns
\* the empty set and writes nothing to the cache, so a threshold without an
\* entry has none after the failure; a call for a threshold without an entry
\* asks the screener; the cache changes only when a screener request succeeds,
\* and then the set received, empty or not, is what is stored.
C29_FailureNotMemoized ==
    [][ \A c \in DOMAIN callers' :
           Moves(c) =>
               LET cap == callers'[c].min_market_cap
               IN  /\ (callers'[c].how = "failed") =>
                        /\ callers'[c].symbols = {}
                        /\ large_cap_cache' = large_cap_cache
                        /\ cap \notin DOMAIN large_cap_cache => cap \notin DOMAIN large_cap_cache'
                   /\ (Free(c) /\ cap \notin DOMAIN large_cap_cache) =>
                        callers'[c].at = "screening"
                   /\ (large_cap_cache' # large_cap_cache) =>
                        /\ callers'[c].how = "screened"
                        /\ large_cap_cache' = Put(large_cap_cache, cap, callers'[c].symbols) ]_vars

\* the screener's empty answer for one threshold is stored; a call for another
\* threshold failed and left no entry, and a call for that threshold is asking
\* the screener
C29_FailedThenAskedAgain ==
    \E c, d \in DOMAIN callers, cap \in DOMAIN large_cap_cache :
        /\ large_cap_cache[cap] = {}
        /\ callers[c].at = "returned"
        /\ callers[c].how = "failed"
        /\ callers[c].min_market_cap \notin DOMAIN large_cap_cache
        /\ callers[d].at = "screening"
        /\ callers[d].min_market_cap = callers[c].min_market_cap

====
